---- MODULE Spec2Model ----
(***************************************************************************)
(* Model of the network-device discovery pipeline of nzions/fdot:          *)
(*   - the SSH command transport (pkg/fdh/netssh/client.go),               *)
(*   - its on-disk output cache (pkg/fdh/netmodel/commandcache.go),        *)
(*   - the vendor detector / adapter (pkg/fdh/netdevice),                  *)
(*   - the discovery orchestrator (cmd/netcrawl/netcrawl/discoverDevice.go)*)
(*                                                                         *)
(* Texts (command outputs) are sequences of lines.  A line is a string of  *)
(* a small vocabulary; what the program's regular expressions and          *)
(* substring tests find on each line is tabulated below.                   *)
(***************************************************************************)
EXTENDS Integers, Sequences, FiniteSets, TLC

\* ------------------------------------------------------------------ bounds
\* CacheConfig.TTL, counted in ticks of the model clock.
TTL == 2
\* The clock runs from 0 to MaxTime.
MaxTime == 3
\* Number of library calls one client receives in SpecClient.
MaxCalls == 3
\* Chunks of output the session takes on both streams before the device waits.
Window == 2
\* Chunks the device writes for one command.
MaxChunks == Window + 1
\* Number of lines of an identification text in SpecDetect.
MaxLines == 2
\* Number of comma-separated tokens of a VLAN string in SpecVlan.
MaxTokens == 3
\* Number of blocks and runs of other lines in a configuration text in SpecIfaces.
MaxBlocks == 3
\* Number of bytes of a username, a password and a stored blob in SpecUnPw.
MaxChars == 2
\* Number of events sent, of registrations held at once, and the capacity of a
\* receiver's channel in SpecStream.
MaxSends == 2
MaxReceivers == 2
MaxQueue == 1

\* ---------------------------------------------------------------- commands
CmdShowVersion == "show version"
CmdShowRun == "show running-config"
CmdShowLLDP == "show lldp neighbors detail"
Commands == {CmdShowVersion, CmdShowRun, CmdShowLLDP}

\* The device the orchestrator and the client talk to (Config.Host).
Host == "10.0.0.1"

\* ------------------------------------------------------------------- lines
LHP == "HP J9624A 2620-24 Switch"
LRev == "Software revision  RA.16.04.0008"
LArubaOS == "ArubaOS-CX"
LAruba == "Aruba JL253A 2930F-24G-4SFP+ Switch"
LCisco == "Cisco IOS Software, C2960"
LOther == "Linux box 5.4"
LWarn == "% warning: terminal length not set"
LEmpty == ""
LIf1 == "interface 1"
LName == "   name uplink"
LExit == "   exit"
LVlan10 == "vlan 10"
LPort1 == "  LocalPort     : 1"
LSysName == "  SysName       : core-sw"
\* Further identification lines.  In LTab a tab separates the two fields.
LTab == "ProCurve-J9624A\t2620-24"
LNexus == "Cisco Nexus Operating System (NX-OS) Software"
LJunos == "JUNOS Software Release [12.3R1]"
LArista == "Arista DCS-7050T-64"
LMixed == "Cisco IOS Software on Aruba uplink"
LEos == "Geosync daemon 1.0"
LSerial == "  Serial Number      : SG48FLX0Z1"
LSerial2 == "Chassis serial number CN99KX"
LUptime == "  Up Time            : 5 days"
LUptime2 == "System uptime is 3 weeks  "
LBoot == "Boot ROM version  YA.15.20.0001"
\* Further configuration lines.
LIf2 == "interface 2"
LDesc == "   description core link"
LUntagged == "   untagged vlan 10,12-14"
LTaggedBad == "   tagged vlan 12-,20"
LIpMask == "   ip address 10.1.1.1 255.255.255.0"
LIpCidr == "   ip address 10.1.1.1/24"
LVrf == "   vrf attach mgmt"
LHostname == "hostname sw1"
\* Further lines of LLDP neighbor output.
LPort2 == "  Local Port   : 2"
LTable == "| 3 | 00:11:22:33:44:55 edge-sw |"
LSysName2 == "  System Name   : dist-sw"
LPortId == "  PortId        : 24"
LChassis == "  ChassisId     : 00 11 22 33 44 55"
LCaps == "  System Capabilities Enabled    : bridge"
LAddr == "     Address : 10.0.0.2"
LDescr == "  System Descr  : HP J9624A 2620-24 Switch"
LSep == "------------------------------"
LSepEq == "=============================="
LBlank == "   "
LBanner == " LLDP Remote Device Information Detail"
\* A line of bufio.MaxScanTokenSize bytes or more.
LLong == "banner motd ... (one line of 64 KiB)"

\* Error values.  An error is the chain of its messages and sentinels,
\* outermost first, as fmt.Errorf("... %w", err) builds it; nil is <<>>.
Nil == <<>>
ErrNotFound == <<"credential not found">>
ErrInvalidFormat == <<"invalid credential format">>
Wrap(msg, err) == <<msg>> \o err
\* errors.Is(err, target) for a sentinel target.
ErrorsIs(err, target) == \E i \in 1..Len(err) : err[i] = target[1]

\* ------------------------------------------------------------------- texts
\* A text is what strings.Split(text, "\n") yields; the empty string is the
\* single empty line.
EmptyText == <<LEmpty>>
Stdouts(cmd) ==
    CASE cmd = CmdShowVersion -> {<<LHP, LRev>>, <<LArubaOS>>, <<LCisco>>, <<LOther>>}
      [] cmd = CmdShowRun -> {<<LIf1, LName, LExit, LVlan10>>}
      [] OTHER -> {<<LPort1, LSysName>>}
Stderrs == {EmptyText, <<LWarn>>}
AllTexts ==
    {EmptyText} \cup UNION {{o, o \o <<LWarn>>} : o \in UNION {Stdouts(c) : c \in Commands}}

VARIABLES
    platform,           \* build target of the credential store: "linux" or "windows"
    credStore,          \* what the store holds under fdh-user-ssh-creds
    wired,              \* TRUE when the orchestrator has the Connect step of spec 4.6 (2)
    cfgTimeout,         \* Client.config.Timeout: Config.Timeout as NewClient keeps it, in seconds
    pc,                 \* position of DiscoverDevice
    ret,                \* its return value once pc = "done"
    events,             \* events handed to log.Send, in order
    written,            \* raw-output files written by this run
    db,                 \* the JSON record <ip>.json written by this run
    showVersionOutput,  \* local variable of DiscoverDevice
    device,             \* the adapter returned by NewDevice
    conn,               \* Client.conn: "nil", "open" or "closed"
    cacheCfg,           \* CommandCache.config
    cache,              \* cache files on disk, by path
    now,                \* the clock
    sessions,           \* sessions opened on the connection (conn.NewSession)
    started,            \* per command, how often session.Start sent it to the device
    calls,              \* library calls made so far
    call,               \* the call made last and its result; the calls in progress where they run concurrently
    credCache,          \* linuxCredManager.credCache
    credInit,           \* linuxCredManager.credCacheInit has run
    credFile,           \* the encrypted credentials file on disk
    lastWrite,          \* per name, the data of the last Write that returned nil
    receivers,          \* Handler.receivers
    closed,             \* Handler.closed
    chans,              \* the receivers' channels: capacity and queued events
    senders             \* the goroutines inside Handler.Send

vars == <<platform, credStore, wired, cfgTimeout, pc, ret, events, written, db, showVersionOutput,
          device, conn, cacheCfg, cache, now, sessions, started, calls, call,
          credCache, credInit, credFile, lastWrite, receivers, closed, chans, senders>>

\* ------------------------------------------------------------ output cache
\* Two more devices: an IPv4-mapped IPv6 address and the IPv6 address that
\* is written with colons only.
DevMapped == "::ffff:1.2.3.4"
DevColons == "::ffff:1:2:3:4"
Devices == {Host, DevMapped, DevColons}

\* strings.ReplaceAll(deviceIP, ":", "_") and then (.., ".", "_")
SanitizedIP(deviceIP) ==
    CASE deviceIP = "10.0.0.1" -> "10_0_0_1"
      [] deviceIP = "::ffff:1.2.3.4" -> "__ffff_1_2_3_4"
      [] deviceIP = "::ffff:1:2:3:4" -> "__ffff_1_2_3_4"
      [] OTHER -> deviceIP

sanitizeCommandForFilename(command) ==
    CASE command = CmdShowVersion -> "show_version"
      [] command = CmdShowRun -> "show_running-config"
      [] command = CmdShowLLDP -> "show_lldp_neighbors_detail"
      [] OTHER -> command

\* First 16 hex characters of sha256(command); distinct for the commands here.
CommandHash(command) == <<"sha256", command>>

getCacheFilePath(deviceIP, command) ==
    <<SanitizedIP(deviceIP), sanitizeCommandForFilename(command), CommandHash(command)>>

HostPaths == {getCacheFilePath(Host, c) : c \in Commands}
CachePaths == {getCacheFilePath(d, c) : d \in Devices, c \in Commands}

\* A path with no file (os.Stat fails).
NoFile == [present |-> FALSE, readable |-> FALSE, out |-> EmptyText, mtime |-> 0]
File(output, t) == [present |-> TRUE, readable |-> TRUE, out |-> output, mtime |-> t]
\* A file that os.Stat finds and os.ReadFile cannot read.
UnreadableFile(output, t) == [File(output, t) EXCEPT !.readable = FALSE]

DefaultCacheConfig == [Enabled |-> TRUE, TTL |-> TTL]

Miss == [out |-> EmptyText, found |-> FALSE]

\* GetCachedOutput without the expiry test.
GetCachedOutput_NeverExpires(deviceIP, command) ==
    LET f == cache[getCacheFilePath(deviceIP, command)] IN
    IF ~cacheCfg.Enabled THEN Miss
    ELSE IF ~f.present THEN Miss
    ELSE IF ~f.readable THEN Miss
    ELSE [out |-> f.out, found |-> TRUE]

\* GetCachedOutput with the expiry test written >= instead of >.
GetCachedOutput_ExpiresAtTTL(deviceIP, command) ==
    LET f == cache[getCacheFilePath(deviceIP, command)] IN
    IF ~cacheCfg.Enabled THEN Miss
    ELSE IF ~f.present THEN Miss
    ELSE IF now - f.mtime >= cacheCfg.TTL THEN Miss
    ELSE IF ~f.readable THEN Miss
    ELSE [out |-> f.out, found |-> TRUE]

GetCachedOutput(deviceIP, command) ==
    LET f == cache[getCacheFilePath(deviceIP, command)] IN
    IF ~cacheCfg.Enabled THEN Miss
    ELSE IF ~f.present THEN Miss
    ELSE IF now - f.mtime > cacheCfg.TTL THEN Miss
    ELSE IF ~f.readable THEN Miss
    ELSE [out |-> f.out, found |-> TRUE]

\* SaveOutput that appends to the file instead of replacing its content.
SaveOutput_Appends(deviceIP, command, output, fsOK) ==
    LET p == getCacheFilePath(deviceIP, command) IN
    IF ~cacheCfg.Enabled THEN [cache |-> cache, err |-> Nil]
    ELSE IF ~fsOK THEN [cache |-> cache, err |-> <<"failed to write cache file">>]
    ELSE [cache |-> [cache EXCEPT ![p] =
                        File(IF cache[p].present THEN cache[p].out \o output ELSE output, now)],
          err |-> Nil]

\* SaveOutput without the test of config.Enabled.
SaveOutput_IgnoresEnabled(deviceIP, command, output, fsOK) ==
    IF ~fsOK THEN [cache |-> cache, err |-> <<"failed to write cache file">>]
    ELSE [cache |-> [cache EXCEPT ![getCacheFilePath(deviceIP, command)] = File(output, now)],
          err |-> Nil]

\* fsOK: whether MkdirAll and WriteFile succeed.  Returns the files afterwards.
SaveOutput(deviceIP, command, output, fsOK) ==
    IF ~cacheCfg.Enabled THEN [cache |-> cache, err |-> Nil]
    ELSE IF ~fsOK THEN [cache |-> cache, err |-> <<"failed to write cache file">>]
    ELSE [cache |-> [cache EXCEPT ![getCacheFilePath(deviceIP, command)] = File(output, now)],
          err |-> Nil]

IsFresh(deviceIP, command) ==
    LET f == cache[getCacheFilePath(deviceIP, command)] IN
    f.present /\ f.readable /\ now - f.mtime <= cacheCfg.TTL

\* --------------------------------------------------------------- transport
\* What the device and the network do with one command execution.
RespKinds == {"session_fail", "pty_fail", "start_fail", "read_fail", "timeout", "exit"}
Responses(cmd) ==
    {[kind |-> k, stdout |-> EmptyText, stderr |-> EmptyText, waitErr |-> FALSE] :
        k \in RespKinds \ {"exit"}}
    \cup {[kind |-> "exit", stdout |-> o, stderr |-> e, waitErr |-> w] :
            o \in Stdouts(cmd) \cup {EmptyText}, e \in Stderrs, w \in BOOLEAN}

\* The responses the orchestrator's runs are checked against.
RunResponses(cmd) == {r \in Responses(cmd) : r.kind \in {"session_fail", "timeout", "exit"}}

ErrNotConnected == <<"not connected - call Connect() first">>

\* executeOptions: the defaults of ExecuteCommand, OptNoCache, OptTimeout.
\* Durations are in seconds.
DefaultTimeout == 30
Timeouts == {DefaultTimeout, 5}
DefaultOptions == [noCache |-> FALSE, timeout |-> DefaultTimeout]
OptNoCache(opts) == [opts EXCEPT !.noCache = TRUE]
OptTimeout(opts, timeout) == [opts EXCEPT !.timeout = timeout]
Options == {[noCache |-> n, timeout |-> t] : n \in BOOLEAN, t \in Timeouts}

\* NewClient: Config.Timeout, 30 seconds when it is zero, goes into the
\* ssh.ClientConfig of the client.
ConfigTimeouts == {0, 5}
NewClientTimeout(t) == IF t = 0 THEN DefaultTimeout ELSE t
\* The options of one call, in the order they are passed.
PassedOptions ==
    {[opt |-> "OptNoCache", timeout |-> 0]}
    \cup {[opt |-> "OptTimeout", timeout |-> t] : t \in Timeouts}
OptionLists == {<<>>} \cup {<<o>> : o \in PassedOptions}
               \cup {<<o1, o2>> : o1 \in PassedOptions, o2 \in PassedOptions}
\* for _, opt := range opts { opt(execOpts) } on the defaults of ExecuteCommand.
RECURSIVE ApplyOptions(_, _)
ApplyOptions(opts, passed) ==
    IF passed = <<>> THEN opts
    ELSE ApplyOptions(IF Head(passed).opt = "OptNoCache" THEN OptNoCache(opts)
                      ELSE OptTimeout(opts, Head(passed).timeout),
                      Tail(passed))
ParseOptions(passed) == ApplyOptions(DefaultOptions, passed)

\* %v of a time.Duration
DurationText(timeout) ==
    CASE timeout = 30 -> "30s"
      [] timeout = 5 -> "5s"
      [] OTHER -> ToString(timeout) \o "s"

ErrTimeout(timeout) == <<"command execution timed out after " \o DurationText(timeout)>>

\* output += "\n" + string(errBytes)
Join(stdout, stderr) == IF stderr = EmptyText THEN stdout ELSE stdout \o stderr

\* executeCommandInternal with the default put into the timeout message.
executeCommandInternal_DefaultInMessage(cmd, opts, resp) ==
    IF conn # "open" \/ resp.kind = "session_fail"
    THEN [out |-> EmptyText, err |-> <<"failed to create session">>,
          opened |-> FALSE, started |-> FALSE]
    ELSE IF resp.kind = "pty_fail"
    THEN [out |-> EmptyText, err |-> <<"request for pseudo terminal failed">>,
          opened |-> TRUE, started |-> FALSE]
    ELSE IF resp.kind = "start_fail"
    THEN [out |-> EmptyText, err |-> <<"failed to start command">>,
          opened |-> TRUE, started |-> FALSE]
    ELSE IF resp.kind = "timeout"
    THEN [out |-> EmptyText, err |-> ErrTimeout(DefaultTimeout), opened |-> TRUE,
          started |-> TRUE]
    ELSE IF resp.kind = "read_fail"
    THEN [out |-> EmptyText, err |-> <<"failed to read stdout">>,
          opened |-> TRUE, started |-> TRUE]
    ELSE IF resp.waitErr /\ resp.stdout = EmptyText
    THEN [out |-> EmptyText, err |-> <<"command failed">>,
          opened |-> TRUE, started |-> TRUE]
    ELSE [out |-> Join(resp.stdout, resp.stderr), err |-> Nil,
          opened |-> TRUE, started |-> TRUE]

\* executeCommandInternal with every error of session.Wait returned.
executeCommandInternal_WaitErrFatal(cmd, opts, resp) ==
    IF conn # "open" \/ resp.kind = "session_fail"
    THEN [out |-> EmptyText, err |-> <<"failed to create session">>,
          opened |-> FALSE, started |-> FALSE]
    ELSE IF resp.kind = "pty_fail"
    THEN [out |-> EmptyText, err |-> <<"request for pseudo terminal failed">>,
          opened |-> TRUE, started |-> FALSE]
    ELSE IF resp.kind = "start_fail"
    THEN [out |-> EmptyText, err |-> <<"failed to start command">>,
          opened |-> TRUE, started |-> FALSE]
    ELSE IF resp.kind = "timeout"
    THEN [out |-> EmptyText, err |-> ErrTimeout(opts.timeout), opened |-> TRUE,
          started |-> TRUE]
    ELSE IF resp.kind = "read_fail"
    THEN [out |-> EmptyText, err |-> <<"failed to read stdout">>,
          opened |-> TRUE, started |-> TRUE]
    ELSE IF resp.waitErr
    THEN [out |-> EmptyText, err |-> <<"command failed">>,
          opened |-> TRUE, started |-> TRUE]
    ELSE [out |-> Join(resp.stdout, resp.stderr), err |-> Nil,
          opened |-> TRUE, started |-> TRUE]

executeCommandInternal(cmd, opts, resp) ==
    IF conn # "open" \/ resp.kind = "session_fail"
    THEN [out |-> EmptyText, err |-> <<"failed to create session">>,
          opened |-> FALSE, started |-> FALSE]
    ELSE IF resp.kind = "pty_fail"
    THEN [out |-> EmptyText, err |-> <<"request for pseudo terminal failed">>,
          opened |-> TRUE, started |-> FALSE]
    ELSE IF resp.kind = "start_fail"
    THEN [out |-> EmptyText, err |-> <<"failed to start command">>,
          opened |-> TRUE, started |-> FALSE]
    ELSE IF resp.kind = "timeout"
    THEN [out |-> EmptyText, err |-> ErrTimeout(opts.timeout), opened |-> TRUE, started |-> TRUE]
    ELSE IF resp.kind = "read_fail"
    THEN [out |-> EmptyText, err |-> <<"failed to read stdout">>,
          opened |-> TRUE, started |-> TRUE]
    ELSE IF resp.waitErr /\ resp.stdout = EmptyText
    THEN [out |-> EmptyText, err |-> <<"command failed">>,
          opened |-> TRUE, started |-> TRUE]
    ELSE [out |-> Join(resp.stdout, resp.stderr), err |-> Nil,
          opened |-> TRUE, started |-> TRUE]

\* ExecuteCommand with the error of SaveOutput returned to the caller.
ExecuteCommand_SaveErrorReturned(cmd, opts, resp, fsOK) ==
    LET cached == GetCachedOutput(Host, cmd)
        r == executeCommandInternal(cmd, opts, resp)
        saved == SaveOutput(Host, cmd, r.out, fsOK)
        noExec == [opened |-> FALSE, started |-> FALSE, cache |-> cache]
    IN
    IF conn = "nil"
    THEN [out |-> EmptyText, err |-> ErrNotConnected, hit |-> FALSE] @@ noExec
    ELSE IF ~opts.noCache /\ cached.found
    THEN [out |-> cached.out, err |-> Nil, hit |-> TRUE] @@ noExec
    ELSE IF r.err # Nil
    THEN [out |-> EmptyText, err |-> r.err, hit |-> FALSE, opened |-> r.opened,
          started |-> r.started, cache |-> cache]
    ELSE IF ~opts.noCache /\ saved.err # Nil
    THEN [out |-> EmptyText, err |-> saved.err, hit |-> FALSE, opened |-> r.opened,
          started |-> r.started, cache |-> cache]
    ELSE [out |-> r.out, err |-> Nil, hit |-> FALSE, opened |-> r.opened,
          started |-> r.started,
          cache |-> IF opts.noCache THEN cache ELSE saved.cache]

\* ExecuteCommand with the output saved whether or not the call disables the cache.
ExecuteCommand_SaveAlways(cmd, opts, resp, fsOK) ==
    LET cached == GetCachedOutput(Host, cmd)
        r == executeCommandInternal(cmd, opts, resp)
        noExec == [opened |-> FALSE, started |-> FALSE, cache |-> cache]
    IN
    IF conn = "nil"
    THEN [out |-> EmptyText, err |-> ErrNotConnected, hit |-> FALSE] @@ noExec
    ELSE IF ~opts.noCache /\ cached.found
    THEN [out |-> cached.out, err |-> Nil, hit |-> TRUE] @@ noExec
    ELSE IF r.err # Nil
    THEN [out |-> EmptyText, err |-> r.err, hit |-> FALSE, opened |-> r.opened,
          started |-> r.started, cache |-> cache]
    ELSE [out |-> r.out, err |-> Nil, hit |-> FALSE, opened |-> r.opened,
          started |-> r.started, cache |-> SaveOutput(Host, cmd, r.out, fsOK).cache]

\* ExecuteCommand with the cache consulted before the connection check.
ExecuteCommand_CacheFirst(cmd, opts, resp, fsOK) ==
    LET cached == GetCachedOutput(Host, cmd)
        r == executeCommandInternal(cmd, opts, resp)
        noExec == [opened |-> FALSE, started |-> FALSE, cache |-> cache]
    IN
    IF ~opts.noCache /\ cached.found
    THEN [out |-> cached.out, err |-> Nil, hit |-> TRUE] @@ noExec
    ELSE IF conn = "nil"
    THEN [out |-> EmptyText, err |-> ErrNotConnected, hit |-> FALSE] @@ noExec
    ELSE IF r.err # Nil
    THEN [out |-> EmptyText, err |-> r.err, hit |-> FALSE, opened |-> r.opened,
          started |-> r.started, cache |-> cache]
    ELSE [out |-> r.out, err |-> Nil, hit |-> FALSE, opened |-> r.opened,
          started |-> r.started,
          cache |-> IF opts.noCache THEN cache ELSE SaveOutput(Host, cmd, r.out, fsOK).cache]

ExecuteCommand(cmd, opts, resp, fsOK) ==
    LET cached == GetCachedOutput(Host, cmd)
        r == executeCommandInternal(cmd, opts, resp)
        noExec == [opened |-> FALSE, started |-> FALSE, cache |-> cache]
    IN
    IF conn = "nil"
    THEN [out |-> EmptyText, err |-> ErrNotConnected, hit |-> FALSE] @@ noExec
    ELSE IF ~opts.noCache /\ cached.found
    THEN [out |-> cached.out, err |-> Nil, hit |-> TRUE] @@ noExec
    ELSE IF r.err # Nil
    THEN [out |-> EmptyText, err |-> r.err, hit |-> FALSE, opened |-> r.opened,
          started |-> r.started, cache |-> cache]
    ELSE [out |-> r.out, err |-> Nil, hit |-> FALSE, opened |-> r.opened,
          started |-> r.started,
          cache |-> IF opts.noCache THEN cache ELSE SaveOutput(Host, cmd, r.out, fsOK).cache]

\* The effect of one ExecuteCommand on the client and the disk.
Executed(r, cmd) ==
    /\ cache' = r.cache
    /\ sessions' = sessions + (IF r.opened THEN 1 ELSE 0)
    /\ started' = [started EXCEPT ![cmd] = @ + (IF r.started THEN 1 ELSE 0)]

\* --------------------------------------------------------- vendor detector
\* The markers of DetectDeviceType that occur in strings.ToLower(line).
Markers(line) ==
    CASE line = LHP -> {"hp j"}
      [] line = LArubaOS -> {"aruba"}
      [] line = LAruba -> {"aruba"}
      [] line = LCisco -> {"cisco ios"}
      [] line = LTab -> {"procurve"}
      [] line = LNexus -> {"nexus"}
      [] line = LJunos -> {"junos"}
      [] line = LArista -> {"arista"}
      [] line = LMixed -> {"aruba", "cisco ios"}
      [] line = LEos -> {"eos"}
      [] OTHER -> {}

Contains(text, marker) == \E i \in 1..Len(text) : marker \in Markers(text[i])

\* DetectDeviceType with the Cisco IOS test placed before the HP/Aruba test.
DetectDeviceType_CiscoFirst(svOutput) ==
    IF \E m \in {"cisco ios", "cisco internetwork"} : Contains(svOutput, m)
    THEN "generic_cisco_ios"
    ELSE IF \E m \in {"procurve", "aruba", "hp j", "hp k"} : Contains(svOutput, m)
    THEN "generic_aruba"
    ELSE IF \E m \in {"cisco nx-os", "nexus"} : Contains(svOutput, m)
    THEN "generic_cisco_nxos"
    ELSE IF \E m \in {"junos", "juniper"} : Contains(svOutput, m)
    THEN "generic_juniper_junos"
    ELSE IF \E m \in {"arista", "eos"} : Contains(svOutput, m)
    THEN "generic_arista_eos"
    ELSE "unknown"

DetectDeviceType(svOutput) ==
    IF \E m \in {"procurve", "aruba", "hp j", "hp k"} : Contains(svOutput, m)
    THEN "generic_aruba"
    ELSE IF \E m \in {"cisco ios", "cisco internetwork"} : Contains(svOutput, m)
    THEN "generic_cisco_ios"
    ELSE IF \E m \in {"cisco nx-os", "nexus"} : Contains(svOutput, m)
    THEN "generic_cisco_nxos"
    ELSE IF \E m \in {"junos", "juniper"} : Contains(svOutput, m)
    THEN "generic_juniper_junos"
    ELSE IF \E m \in {"arista", "eos"} : Contains(svOutput, m)
    THEN "generic_arista_eos"
    ELSE "unknown"

\* ---------------------------------------------------------- HP/Aruba adapter
\* match[1] of each regular expression of ParseShowVersion on a line, "" for no match.
modelRe(line) ==
    CASE line = LHP -> "HP J9624A 2620-24"
      [] line = LTab -> "J9624A\t2620-24"
      [] OTHER -> ""
platformRe(line) ==
    CASE line = LHP -> "J9624A"
      [] line = LAruba -> "JL253A"
      [] line = LMixed -> "uplink"
      [] OTHER -> ""
versionRe(line) ==
    CASE line = LRev -> "RA.16.04.0008"
      [] line = LBoot -> "YA.15.20.0001"
      [] OTHER -> ""
serialRe(line) ==
    CASE line = LSerial -> "SG48FLX0Z1"
      [] line = LSerial2 -> "CN99KX"
      [] OTHER -> ""
\* strings.TrimSpace(match[1]) of uptimeRe.
uptimeRe(line) ==
    CASE line = LUptime -> "Time            : 5 days"
      [] line = LUptime2 -> "3 weeks"
      [] OTHER -> ""
\* strings.Fields(model)[0] when the model contains a space, "" otherwise.
FirstField(model) == IF model = "HP J9624A 2620-24" THEN "HP" ELSE ""

NoFields == [platform |-> "", osVersion |-> "", model |-> "", serial |-> "", uptime |-> ""]

\* The loop body of ParseShowVersion with every match assigned, set or not.
ParseLine_LastMatch(f, line) ==
    LET m == IF modelRe(line) # "" THEN modelRe(line) ELSE f.model
        p1 == IF modelRe(line) # "" /\ FirstField(m) # "" THEN FirstField(m) ELSE f.platform
        p2 == IF platformRe(line) # "" /\ p1 = f.platform THEN platformRe(line) ELSE p1
    IN [platform |-> p2,
        osVersion |-> IF versionRe(line) # "" THEN versionRe(line) ELSE f.osVersion,
        model |-> m,
        serial |-> IF serialRe(line) # "" THEN serialRe(line) ELSE f.serial,
        uptime |-> IF uptimeRe(line) # "" THEN uptimeRe(line) ELSE f.uptime]

ParseLine(f, line) ==
    LET m == IF f.model = "" THEN modelRe(line) ELSE f.model
        p1 == IF f.model = "" /\ m # "" /\ f.platform = "" THEN FirstField(m) ELSE f.platform
        p2 == IF p1 = "" THEN platformRe(line) ELSE p1
    IN [platform |-> p2,
        osVersion |-> IF f.osVersion = "" THEN versionRe(line) ELSE f.osVersion,
        model |-> m,
        serial |-> IF f.serial = "" THEN serialRe(line) ELSE f.serial,
        uptime |-> IF f.uptime = "" THEN uptimeRe(line) ELSE f.uptime]

RECURSIVE ParseLines(_, _, _)
ParseLines(f, text, i) ==
    IF i > Len(text) THEN f ELSE ParseLines(ParseLine(f, text[i]), text, i + 1)

ParseShowVersion(output) == ParseLines(NoFields, output, 1)

NoDevice == [present |-> FALSE]

\* genericaruba.NewDevice failing when either of platform and model is empty.
ArubaNewDevice_EitherEmpty(svOutput) ==
    LET f == ParseShowVersion(svOutput) IN
    IF f.platform = "" \/ f.model = ""
    THEN [device |-> NoDevice,
          err |-> <<"failed to parse Aruba device information from show version">>]
    ELSE [device |-> [present |-> TRUE, Platform |-> f.platform, OSVersion |-> f.osVersion,
                      Model |-> f.model, Serial |-> f.serial, Uptime |-> f.uptime,
                      IPAddress |-> "", Interfaces |-> <<>>, Neighbors |-> <<>>,
                      RawOutputDir |-> ""],
          err |-> Nil]

\* genericaruba.NewDevice: the adapter, or an error.
ArubaNewDevice(svOutput) ==
    LET f == ParseShowVersion(svOutput) IN
    IF f.platform = "" /\ f.model = ""
    THEN [device |-> NoDevice,
          err |-> <<"failed to parse Aruba device information from show version">>]
    ELSE [device |-> [present |-> TRUE, Platform |-> f.platform, OSVersion |-> f.osVersion,
                      Model |-> f.model, Serial |-> f.serial, Uptime |-> f.uptime,
                      IPAddress |-> "", Interfaces |-> <<>>, Neighbors |-> <<>>,
                      RawOutputDir |-> ""],
          err |-> Nil]

\* The getters of the adapter.
GetPlatform(d) == d.Platform
GetOSVersion(d) == d.OSVersion
GetModel(d) == d.Model
GetSerial(d) == d.Serial
GetUptime(d) == d.Uptime

\* NewDevice with the HP/Aruba adapter as the fallback of every other type.
NewDevice_ArubaFallback(svOutput) ==
    LET a == ArubaNewDevice(svOutput) IN
    IF a.err # Nil
    THEN [device |-> NoDevice, err |-> Wrap("failed to create Aruba device", a.err)]
    ELSE a

\* netdevice.NewDevice
NewDevice(svOutput) ==
    LET deviceType == DetectDeviceType(svOutput)
        a == ArubaNewDevice(svOutput)
    IN
    IF deviceType = "generic_aruba"
    THEN IF a.err # Nil
         THEN [device |-> NoDevice, err |-> Wrap("failed to create Aruba device", a.err)]
         ELSE a
    ELSE [device |-> NoDevice, err |-> <<"unsupported device type", deviceType>>]

\* ------------------------------------------------------------ VLAN strings
\* A VLAN string is the sequence of its characters.
Digits == <<"0", "1", "2", "3", "4", "5", "6", "7", "8", "9">>
IsDigit(c) == \E d \in 1..Len(Digits) : Digits[d] = c
DigitValue(c) == (CHOOSE d \in 1..Len(Digits) : Digits[d] = c) - 1
IsSpace(c) == c \in {" ", "\t"}

\* strings.Split(s, sep) for a separator of one character.
RECURSIVE SplitFrom(_, _, _, _)
SplitFrom(s, sep, i, cur) ==
    IF i > Len(s) THEN <<cur>>
    ELSE IF s[i] = sep THEN <<cur>> \o SplitFrom(s, sep, i + 1, <<>>)
    ELSE SplitFrom(s, sep, i + 1, Append(cur, s[i]))
Split(s, sep) == SplitFrom(s, sep, 1, <<>>)

\* strings.TrimSpace
RECURSIVE TrimLeft(_)
TrimLeft(s) == IF s # <<>> /\ IsSpace(Head(s)) THEN TrimLeft(Tail(s)) ELSE s
RECURSIVE TrimRight(_)
TrimRight(s) ==
    IF s # <<>> /\ IsSpace(s[Len(s)]) THEN TrimRight(SubSeq(s, 1, Len(s) - 1)) ELSE s
TrimSpace(s) == TrimRight(TrimLeft(s))

\* strings.Contains(s, c) for one character.
ContainsChar(s, c) == \E i \in 1..Len(s) : s[i] = c

\* strconv.Atoi: an optional sign and at least one decimal digit.
RECURSIVE DecimalValue(_, _)
DecimalValue(s, acc) ==
    IF s = <<>> THEN acc ELSE DecimalValue(Tail(s), 10 * acc + DigitValue(Head(s)))
Atoi(s) ==
    LET signed == s # <<>> /\ Head(s) \in {"+", "-"}
        body == IF signed THEN Tail(s) ELSE s
    IN
    IF body = <<>> \/ \E i \in 1..Len(body) : ~IsDigit(body[i])
    THEN [ok |-> FALSE, val |-> 0]
    ELSE [ok |-> TRUE,
          val |-> IF signed /\ Head(s) = "-"
                  THEN 0 - DecimalValue(body, 0) ELSE DecimalValue(body, 0)]

\* for i := start; i <= end; i++ { vlans = append(vlans, i) }
VlanRange(start, end) ==
    IF start > end THEN <<>> ELSE [k \in 1..(end - start + 1) |-> start + k - 1]

\* parseVLANString giving up at the first token it cannot parse.
RECURSIVE VlanParts_StopAtMalformed(_, _, _)
VlanParts_StopAtMalformed(parts, i, vlans) ==
    IF i > Len(parts) THEN vlans
    ELSE LET part == TrimSpace(parts[i]) IN
         IF ContainsChar(part, "-")
         THEN LET rangeParts == Split(part, "-") IN
              IF Len(rangeParts) = 2
              THEN LET start == Atoi(TrimSpace(rangeParts[1]))
                       end == Atoi(TrimSpace(rangeParts[2]))
                   IN IF start.ok /\ end.ok
                      THEN VlanParts_StopAtMalformed(parts, i + 1,
                                                     vlans \o VlanRange(start.val, end.val))
                      ELSE vlans
              ELSE vlans
         ELSE LET vlanID == Atoi(part) IN
              IF vlanID.ok
              THEN VlanParts_StopAtMalformed(parts, i + 1, Append(vlans, vlanID.val))
              ELSE vlans

\* The loop of parseVLANString over the comma-separated parts.
RECURSIVE VlanParts(_, _, _)
VlanParts(parts, i, vlans) ==
    IF i > Len(parts) THEN vlans
    ELSE LET part == TrimSpace(parts[i]) IN
         IF ContainsChar(part, "-")
         THEN LET rangeParts == Split(part, "-") IN
              IF Len(rangeParts) = 2
              THEN LET start == Atoi(TrimSpace(rangeParts[1]))
                       end == Atoi(TrimSpace(rangeParts[2]))
                   IN IF start.ok /\ end.ok
                      THEN VlanParts(parts, i + 1, vlans \o VlanRange(start.val, end.val))
                      ELSE VlanParts(parts, i + 1, vlans)
              ELSE VlanParts(parts, i + 1, vlans)
         ELSE LET vlanID == Atoi(part) IN
              IF vlanID.ok
              THEN VlanParts(parts, i + 1, Append(vlans, vlanID.val))
              ELSE VlanParts(parts, i + 1, vlans)

parseVLANString(vlanStr) == VlanParts(Split(vlanStr, ","), 1, <<>>)

\* bufio.Scanner: Scan returns the lines in order and stops, with an error
\* that the parsers do not look at, at the first line too long for its buffer.
TooLong(line) == line = LLong
RECURSIVE ScannerLines(_)
ScannerLines(text) ==
    IF text = <<>> \/ TooLong(Head(text)) THEN <<>>
    ELSE <<Head(text)>> \o ScannerLines(Tail(text))

\* match[1] of the regular expressions of parseInterfaces on a line.
interfaceRe(line) ==
    CASE line = LIf1 -> "1"
      [] line = LIf2 -> "2"
      [] line = LVlan10 -> "10"
      [] OTHER -> ""
descRe(line) ==
    CASE line = LName -> "uplink"
      [] line = LDesc -> "core link"
      [] OTHER -> ""
\* match[1], match[2] and match[3] of ipRe; ip is "" for no match.
NoIP == [ip |-> "", mask |-> "", cidr |-> ""]
ipRe(line) ==
    CASE line = LIpMask -> [ip |-> "10.1.1.1", mask |-> "255.255.255.0", cidr |-> ""]
      [] line = LIpCidr -> [ip |-> "10.1.1.1", mask |-> "", cidr |-> "24"]
      [] OTHER -> NoIP
vrfRe(line) == IF line = LVrf THEN "mgmt" ELSE ""
\* match[1] of vlanRe as a VLAN string, <<>> for no match.
vlanRe(line) ==
    CASE line = LUntagged -> <<"1", "0", ",", "1", "2", "-", "1", "4">>
      [] line = LTaggedBad -> <<"1", "2", "-", ",", "2", "0">>
      [] OTHER -> <<>>
\* strings.TrimSpace(line) == "exit"
IsExitLine(line) == line = LExit

NewInterface(name) ==
    [Name |-> name, Description |-> "", IPAddress |-> "", Subnet |-> "", VRF |-> "",
     VLANs |-> <<>>]

\* The probes of parseInterfaces on a line inside a block.
ProbeLine(c, line) ==
    LET ipm == ipRe(line)
        c1 == IF ipm.ip = "" THEN c
              ELSE [c EXCEPT !.IPAddress = ipm.ip,
                             !.Subnet = IF ipm.mask # "" THEN ipm.mask
                                        ELSE IF ipm.cidr # "" THEN "/" \o ipm.cidr ELSE @]
        c2 == IF descRe(line) # "" THEN [c1 EXCEPT !.Description = descRe(line)] ELSE c1
        c3 == IF vrfRe(line) # "" THEN [c2 EXCEPT !.VRF = vrfRe(line)] ELSE c2
    IN IF vlanRe(line) # <<>>
       THEN [c3 EXCEPT !.VLANs = @ \o parseVLANString(vlanRe(line))] ELSE c3

\* The loop of parseInterfaces: cur is <<>> for currentInterface == nil.
RECURSIVE ScanInterfaces(_, _, _, _)
ScanInterfaces(text, i, interfaces, cur) ==
    IF i > Len(text) THEN interfaces \o cur
    ELSE LET line == text[i] IN
         IF interfaceRe(line) # ""
         THEN ScanInterfaces(text, i + 1, interfaces \o cur, <<NewInterface(interfaceRe(line))>>)
         ELSE IF cur = <<>> THEN ScanInterfaces(text, i + 1, interfaces, cur)
         ELSE LET c1 == ProbeLine(cur[1], line) IN
              IF IsExitLine(line)
              THEN ScanInterfaces(text, i + 1, Append(interfaces, c1), <<>>)
              ELSE ScanInterfaces(text, i + 1, interfaces, <<c1>>)

parseInterfaces(config) == ScanInterfaces(ScannerLines(config), 1, <<>>, <<>>)

\* The lines that parseNeighbors skips once trimmed: empty, or starting with
\* "---" or "===".
IsSkipped(line) == line \in {LEmpty, LBlank, LSep, LSepEq}
\* match[1..3] of tableEntryRe on a trimmed line, <<>> for no match.
tableEntryRe(line) ==
    IF line = LTable THEN <<"3", "00:11:22:33:44:55", "edge-sw">> ELSE <<>>
\* match[1] of the other regular expressions of parseNeighbors on a trimmed
\* line, trimmed where the code trims, "" for no match.
localPortRe(line) ==
    CASE line = LPort1 -> "1"
      [] line = LPort2 -> "2"
      [] line = LTable -> "3"
      [] OTHER -> ""
remoteIntfRe(line) ==
    CASE line = LPortId -> "24"
      [] line = LChassis -> "00 11 22 33 44 55"
      [] OTHER -> ""
hostnameRe(line) ==
    CASE line = LSysName -> "core-sw"
      [] line = LSysName2 -> "dist-sw"
      [] OTHER -> ""
capabilitiesRe(line) == IF line = LCaps THEN "Enabled    : bridge" ELSE ""
lldpIpRe(line) == IF line = LAddr THEN "10.0.0.2" ELSE ""
lldpPlatformRe(line) == IF line = LDescr THEN "HP J9624A 2620-24 Switch" ELSE ""
\* strings.Fields(match[3])[0] of a table entry.
FirstWord(rest) == IF rest = "edge-sw" THEN "edge-sw" ELSE ""

NewNeighbor(local) ==
    [LocalInterface |-> local, RemoteInterface |-> "", RemoteHostname |-> "",
     Capabilities |-> "", IPAddress |-> "", Platform |-> ""]

\* The probes of a line of the record in progress, in the order of the code.
ProbeNeighbor(c, line) ==
    [c EXCEPT
       !.RemoteInterface = IF remoteIntfRe(line) # "" THEN remoteIntfRe(line) ELSE @,
       !.RemoteHostname = IF hostnameRe(line) # "" THEN hostnameRe(line) ELSE @,
       !.Capabilities = IF capabilitiesRe(line) # "" THEN capabilitiesRe(line) ELSE @,
       !.IPAddress = IF lldpIpRe(line) # "" THEN lldpIpRe(line) ELSE @,
       !.Platform = IF lldpPlatformRe(line) # "" THEN lldpPlatformRe(line) ELSE @]

RECURSIVE ScanNeighbors(_, _, _, _)
ScanNeighbors(text, i, neighbors, cur) ==
    IF i > Len(text) THEN neighbors \o cur
    ELSE LET line == text[i] IN
         IF IsSkipped(line) THEN ScanNeighbors(text, i + 1, neighbors, cur)
         ELSE IF tableEntryRe(line) # <<>>
         THEN ScanNeighbors(text, i + 1, neighbors \o cur,
                            <<[NewNeighbor(tableEntryRe(line)[1]) EXCEPT
                                 !.RemoteHostname = FirstWord(tableEntryRe(line)[3])]>>)
         ELSE IF localPortRe(line) # ""
         THEN ScanNeighbors(text, i + 1, neighbors \o cur, <<NewNeighbor(localPortRe(line))>>)
         ELSE IF cur = <<>> THEN ScanNeighbors(text, i + 1, neighbors, cur)
         ELSE ScanNeighbors(text, i + 1, neighbors, <<ProbeNeighbor(cur[1], line)>>)

parseNeighbors(output) == ScanNeighbors(ScannerLines(output), 1, <<>>, <<>>)

\* -------------------------------------------------------- credential store
Platforms == {"linux", "windows"}
CredStates == {"stored", "absent", "unreadable", "malformed"}
SSHCred == [username |-> "admin", password |-> "s3cret"]
NoCred == [username |-> "", password |-> ""]

\* CredManager.ReadUserCred(fdh-user-ssh-creds) of the build's credential manager.
ReadUserCred(plat, store) ==
    IF store = "stored" THEN [cred |-> SSHCred, err |-> Nil]
    ELSE IF store = "malformed"
    THEN [cred |-> NoCred, err |-> Wrap("expected 'username:password'", ErrInvalidFormat)]
    ELSE IF plat = "windows" THEN [cred |-> NoCred, err |-> ErrNotFound]
    ELSE IF store = "absent"
    THEN [cred |-> NoCred, err |-> Wrap("credential fdh-user-ssh-creds", ErrNotFound)]
    ELSE [cred |-> NoCred, err |-> <<"failed to decrypt credentials">>]

\* FUser.SSHCreds
SSHCreds(plat, store) == ReadUserCred(plat, store)

\* ------------------------------------------- username/password credentials
\* Credential data is a sequence of bytes.
Colon == 58
LetterA == 97
\* The bytes of "!@#$%^&*()_+".
KeySuffix == <<33, 64, 35, 36, 37, 94, 38, 42, 40, 41, 95, 43>>
KeyLen == 16

\* a ^ b on the low n bits.
RECURSIVE XorBits(_, _, _)
XorBits(a, b, n) ==
    IF n = 0 THEN 0
    ELSE (((a % 2) + (b % 2)) % 2) + 2 * XorBits(a \div 2, b \div 2, n - 1)
Xor(a, b) == XorBits(a, b, 8)

\* for len(key) < 16 { key = append(key, key...) }
RECURSIVE DoubleKey(_)
DoubleKey(key) == IF Len(key) < KeyLen THEN DoubleKey(key \o key) ELSE key
generateObfuscationKey(username) ==
    LET key == username \o KeySuffix IN
    IF Len(key) < KeyLen THEN SubSeq(DoubleKey(key), 1, KeyLen) ELSE key

xorEncode(data, key) ==
    [i \in 1..Len(data) |-> Xor(data[i], key[((i - 1) % Len(key)) + 1])]

newObfuscatedUserCred(username, password) ==
    LET key == generateObfuscationKey(username) IN
    [username |-> username, obfuscatedPass |-> xorEncode(password, key),
     obfuscationKey |-> key]
NewUnPw(username, password) == newObfuscatedUserCred(username, password)
Username(u) == u.username
Password(u) == xorEncode(u.obfuscatedPass, u.obfuscationKey)
marshal(u) == u.username \o <<Colon>> \o Password(u)

NoUserCred == newObfuscatedUserCred(<<>>, <<>>)
ErrExpectedUnPw == Wrap("expected 'username:password'", ErrInvalidFormat)

\* unmarshalUnPw splitting at the last colon.
unmarshalUnPw_LastColon(data) ==
    LET colons == {i \in 1..Len(data) : data[i] = Colon} IN
    IF colons = {} THEN [cred |-> NoUserCred, err |-> ErrExpectedUnPw]
    ELSE LET i == CHOOSE x \in colons : \A y \in colons : x >= y IN
         [cred |-> newObfuscatedUserCred(SubSeq(data, 1, i - 1),
                                         SubSeq(data, i + 1, Len(data))),
          err |-> Nil]

\* unmarshalUnPw: strings.SplitN(string(data), ":", 2)
unmarshalUnPw(data) ==
    LET colons == {i \in 1..Len(data) : data[i] = Colon} IN
    IF colons = {} THEN [cred |-> NoUserCred, err |-> ErrExpectedUnPw]
    ELSE LET i == CHOOSE x \in colons : \A y \in colons : x <= y IN
         [cred |-> newObfuscatedUserCred(SubSeq(data, 1, i - 1),
                                         SubSeq(data, i + 1, Len(data))),
          err |-> Nil]

\* --------------------------------------------- the Linux credential manager
SSHCredSecretName == "fdh-user-ssh-creds"
CredNames == {SSHCredSecretName, "api-key"}
\* An entry of the map: absent, or present with its data.
NoEntry == [present |-> FALSE, data |-> <<>>]
Entry(data) == [present |-> TRUE, data |-> data]
EmptyMap == [n \in CredNames |-> NoEntry]
\* cm.credCache: a map, or the nil map.
CredMap(m) == [nil |-> FALSE, m |-> m]
NilMap == [nil |-> TRUE, m |-> EmptyMap]
\* The credentials file: absent, holding a map, or not decryptable.
AbsentFile == [state |-> "absent", m |-> EmptyMap]
CredFile(m) == [state |-> "ok", m |-> m]
CorruptFile == [state |-> "corrupt", m |-> EmptyMap]

ErrLoad == <<"failed to decrypt credentials">>
ErrSave == <<"failed to write credentials file">>
ErrCredNotFound(name) == Wrap("credential " \o name, ErrNotFound)
PanicNilMap == <<"panic: assignment to entry in nil map">>

\* loadCredentials: loadOK is whether reading and decrypting the file works.
loadCredentials(loadOK) ==
    IF credFile.state = "absent" THEN [creds |-> CredMap(EmptyMap), err |-> Nil]
    ELSE IF credFile.state = "corrupt" \/ ~loadOK THEN [creds |-> NilMap, err |-> ErrLoad]
    ELSE [creds |-> CredMap(credFile.m), err |-> Nil]

\* getCache: the first call loads the file, whatever comes of it; every later
\* call returns cm.credCache with no error.
getCache(loadOK) ==
    IF credInit THEN [cache |-> credCache, err |-> Nil]
    ELSE LET l == loadCredentials(loadOK) IN [cache |-> l.creds, err |-> l.err]

\* The result of a method: the manager's fields after it, and what it returns.
CredResult(cacheAfter, fileAfter, data, err, panic) ==
    [credCache |-> cacheAfter, credFile |-> fileAfter, data |-> data, err |-> err,
     panic |-> panic]

\* linuxCredManager.Read
Read(name, loadOK) ==
    LET c == getCache(loadOK) IN
    IF c.err # Nil THEN CredResult(c.cache, credFile, <<>>, c.err, FALSE)
    ELSE IF ~c.cache.m[name].present
    THEN CredResult(c.cache, credFile, <<>>, ErrCredNotFound(name), FALSE)
    ELSE CredResult(c.cache, credFile, c.cache.m[name].data, Nil, FALSE)

\* linuxCredManager.Write: saveOK is whether saveCredentials works.
Write(name, data, loadOK, saveOK) ==
    LET c == getCache(loadOK) IN
    IF c.err # Nil THEN CredResult(c.cache, credFile, <<>>, c.err, FALSE)
    ELSE IF c.cache.nil THEN CredResult(c.cache, credFile, <<>>, PanicNilMap, TRUE)
    ELSE LET m == [c.cache.m EXCEPT ![name] = Entry(data)] IN
         IF saveOK THEN CredResult(CredMap(m), CredFile(m), <<>>, Nil, FALSE)
         ELSE CredResult(CredMap(m), credFile, <<>>, ErrSave, FALSE)

\* linuxCredManager.Delete
Delete(name, loadOK, saveOK) ==
    LET c == getCache(loadOK) IN
    IF c.err # Nil THEN CredResult(c.cache, credFile, <<>>, c.err, FALSE)
    ELSE IF ~c.cache.m[name].present
    THEN CredResult(c.cache, credFile, <<>>, ErrCredNotFound(name), FALSE)
    ELSE LET m == [c.cache.m EXCEPT ![name] = NoEntry] IN
         IF saveOK THEN CredResult(CredMap(m), CredFile(m), <<>>, Nil, FALSE)
         ELSE CredResult(CredMap(m), credFile, <<>>, ErrSave, FALSE)

\* linuxCredManager.List: the names, as a set.
List(loadOK) ==
    LET c == getCache(loadOK) IN
    IF c.err # Nil THEN CredResult(c.cache, credFile, {}, c.err, FALSE)
    ELSE CredResult(c.cache, credFile, {n \in CredNames : c.cache.m[n].present}, Nil, FALSE)

\* linuxCredManager.WriteUserCred
WriteUserCred(name, cred, loadOK, saveOK) ==
    Write(name, marshal(newObfuscatedUserCred(Username(cred), Password(cred))), loadOK, saveOK)

\* linuxCredManager.ReadUserCred: the credential, or an error.
LinuxReadUserCred(name, loadOK) ==
    LET r == Read(name, loadOK) IN
    IF r.err # Nil THEN [cred |-> NoUserCred, err |-> r.err, credCache |-> r.credCache]
    ELSE LET u == unmarshalUnPw(r.data) IN
         [cred |-> u.cred, err |-> u.err, credCache |-> r.credCache]

CredIdle ==
    /\ credCache = CredMap(EmptyMap)
    /\ credInit = FALSE
    /\ credFile = AbsentFile
    /\ lastWrite = EmptyMap

StreamIdle ==
    /\ receivers = <<>>
    /\ closed = FALSE
    /\ chans = <<>>
    /\ senders = <<>>

\* ----------------------------------------------------- eventstream.Handler
\* The channels the callers made, and the goroutines that call Send.
Chans == {"ch1", "ch2"}
Senders == {"s1", "s2"}

ErrHandlerClosed == <<"handler is closed">>

\* select { case receiver <- event: default: } on a channel holding q.
TrySend_Blocking(q, ev) ==
    IF Len(q) < MaxQueue
    THEN [queue |-> Append(q, ev), sent |-> TRUE, blocked |-> FALSE]
    ELSE [queue |-> q, sent |-> FALSE, blocked |-> TRUE]

TrySend(q, ev) ==
    IF Len(q) < MaxQueue
    THEN [queue |-> Append(q, ev), sent |-> TRUE, blocked |-> FALSE]
    ELSE [queue |-> q, sent |-> FALSE, blocked |-> FALSE]

\* The loop of RemoveReceiver: the first element equal to ch is cut out.
RemoveFirst_Head(rs, ch) ==
    IF \A i \in 1..Len(rs) : rs[i] # ch THEN rs ELSE Tail(rs)

RemoveFirst(rs, ch) ==
    LET idx == {i \in 1..Len(rs) : rs[i] = ch} IN
    IF idx = {} THEN rs
    ELSE LET k == CHOOSE i \in idx : \A j \in idx : i <= j IN
         SubSeq(rs, 1, k - 1) \o SubSeq(rs, k + 1, Len(rs))

\* A goroutine outside Send.
IdleSender == [pc |-> "idle", ev |-> 0, i |-> 0, got |-> {}, skipped |-> {},
               blocked |-> FALSE]
\* What a call on the handler came to: its error, and for Send the number of
\* receivers that got the event and that were skipped.
HandlerCall(op, ch, err) == [op |-> op, ch |-> ch, err |-> err, sent |-> 0, dropped |-> 0]
SendCall(sent, dropped) ==
    [op |-> "Send", ch |-> "", err |-> Nil, sent |-> sent, dropped |-> dropped]

\* ------------------------------------------------------------ orchestrator
Running == <<"running">>
Event(type, success, count, error) ==
    [type |-> type, success |-> success, count |-> count, error |-> error]
Send(e) == events' = Append(events, e)

ShowVersionFile == "show_version.txt"
ConfigFile == "show_running_config.txt"
NoCall == [n |-> 0, cmd |-> "", noCache |-> FALSE, out |-> EmptyText, err |-> Nil,
           hit |-> FALSE, opened |-> FALSE, at |-> 0]

Return(err) == ret' = err /\ pc' = "done"

clientVars == <<conn, cacheCfg, cache, sessions, started>>
libVars == <<calls, call>>
inputVars == <<platform, credStore, wired, cfgTimeout>>
credVars == <<credCache, credInit, credFile, lastWrite>>
streamVars == <<receivers, closed, chans, senders>>
\* The state of the packages the orchestrator's steps do not touch.
pkgVars == <<credVars, streamVars>>

\* discoverDevice.go:19-51: load the SSH credentials, announce the run, create the client.
LoadSSHCreds ==
    /\ pc = "load_creds"
    /\ LET r == SSHCreds(platform, credStore) IN
       IF r.err = Nil
       THEN /\ Send(Event("DiscoveryStarted", TRUE, 0, Nil))
            /\ conn' = "nil"
            /\ cacheCfg' = DefaultCacheConfig
            /\ pc' = IF wired THEN "connect" ELSE "show_version"
            /\ ret' = ret
       ELSE IF r.err = ErrNotFound
       THEN /\ Send(Event("DiscoveryCompleted", FALSE, 0, <<"No SSH credentials found">>))
            /\ Return(Nil)
            /\ UNCHANGED <<conn, cacheCfg>>
       ELSE /\ Return(Wrap("loading ssh creds", r.err))
            /\ UNCHANGED <<events, conn, cacheCfg>>
    /\ UNCHANGED <<inputVars, pkgVars, written, db, showVersionOutput, device, cache, now, sessions,
                   started, libVars>>

\* Client.Connect (client.go:83-91): dialOK is the outcome of ssh.Dial.
Connect(dialOK) ==
    IF dialOK THEN [conn |-> "open", err |-> Nil]
    ELSE [conn |-> conn, err |-> <<"failed to dial">>]

\* Step 2 of the orchestrator as the specification has it: connect the transport.
ConnectTransport ==
    /\ pc = "connect"
    /\ \E dialOK \in BOOLEAN :
         LET r == Connect(dialOK) IN
         /\ conn' = r.conn
         /\ IF r.err # Nil
            THEN Return(Wrap("failed to connect", r.err))
            ELSE pc' = "show_version" /\ ret' = ret
    /\ UNCHANGED <<inputVars, pkgVars, events, written, db, showVersionOutput, device, cacheCfg, cache,
                   now, sessions, started, libVars>>

\* discoverDevice.go:52-55
RunShowVersion ==
    /\ pc = "show_version"
    /\ \E resp \in RunResponses(CmdShowVersion), fsOK \in BOOLEAN :
         LET r == ExecuteCommand(CmdShowVersion, DefaultOptions, resp, fsOK) IN
         /\ Executed(r, CmdShowVersion)
         /\ IF r.err # Nil
            THEN Return(Wrap("executing show version", r.err)) /\ UNCHANGED showVersionOutput
            ELSE showVersionOutput' = r.out /\ pc' = "save_show_version" /\ ret' = ret
    /\ UNCHANGED <<inputVars, pkgVars, events, written, db, device, conn, cacheCfg, now, libVars>>

\* SaveShowVersion with the error of os.WriteFile dropped.
SaveShowVersion_WriteErrorDropped ==
    /\ pc = "save_show_version"
    /\ \E mkdirOK \in BOOLEAN, writeOK \in BOOLEAN :
         IF ~mkdirOK
         THEN Return(<<"failed to create device directory">>) /\ UNCHANGED <<written, events>>
         ELSE /\ written' = IF writeOK THEN written \cup {ShowVersionFile} ELSE written
              /\ Send(Event("ShowVersionRetrieved", TRUE, Len(showVersionOutput), Nil))
              /\ pc' = "new_device" /\ ret' = ret
    /\ UNCHANGED <<inputVars, pkgVars, db, showVersionOutput, device, clientVars, now, libVars>>

\* discoverDevice.go:57-73: create the device directory, save the raw output.
SaveShowVersion ==
    /\ pc = "save_show_version"
    /\ \E mkdirOK \in BOOLEAN, writeOK \in BOOLEAN :
         IF ~mkdirOK
         THEN Return(<<"failed to create device directory">>) /\ UNCHANGED <<written, events>>
         ELSE IF ~writeOK
         THEN Return(<<"failed to save show version output">>) /\ UNCHANGED <<written, events>>
         ELSE /\ written' = written \cup {ShowVersionFile}
              /\ Send(Event("ShowVersionRetrieved", TRUE, Len(showVersionOutput), Nil))
              /\ pc' = "new_device" /\ ret' = ret
    /\ UNCHANGED <<inputVars, pkgVars, db, showVersionOutput, device, clientVars, now, libVars>>

\* discoverDevice.go:75-92: detect the vendor, construct the adapter, set its IP.
CreateDevice ==
    /\ pc = "new_device"
    /\ LET r == NewDevice(showVersionOutput) IN
       IF r.err # Nil
       THEN Return(Wrap("failed to create device", r.err)) /\ UNCHANGED <<device, events>>
       ELSE /\ device' = [r.device EXCEPT !.IPAddress = Host]
            /\ Send(Event("DeviceDetected", TRUE, 0, Nil))
            /\ pc' = "get_config" /\ ret' = ret
    /\ UNCHANGED <<inputVars, pkgVars, written, db, showVersionOutput, clientVars, now, libVars>>

\* Device.IsConnected: d.client != nil
IsConnected(d) == d.present

\* Device.GetConfig
GetConfig(d, resp, fsOK) ==
    IF ~IsConnected(d)
    THEN [out |-> EmptyText, err |-> <<"device not connected">>, hit |-> FALSE,
          opened |-> FALSE, started |-> FALSE, cache |-> cache]
    ELSE ExecuteCommand(CmdShowRun, DefaultOptions, resp, fsOK)

\* FetchConfig with no event sent when the fetch fails.
FetchConfig_Silent ==
    /\ pc = "get_config"
    /\ \E resp \in RunResponses(CmdShowRun), fsOK \in BOOLEAN, writeOK \in BOOLEAN :
         LET r == GetConfig(device, resp, fsOK) IN
         /\ Executed(r, CmdShowRun)
         /\ IF r.err # Nil
            THEN /\ pc' = "get_interfaces" /\ ret' = ret
                 /\ UNCHANGED <<written, events>>
            ELSE IF ~writeOK
            THEN Return(<<"failed to save config">>) /\ UNCHANGED <<written, events>>
            ELSE /\ written' = written \cup {ConfigFile}
                 /\ Send(Event("ConfigurationRetrieved", TRUE, 0, Nil))
                 /\ pc' = "get_interfaces" /\ ret' = ret
    /\ UNCHANGED <<inputVars, pkgVars, db, showVersionOutput, device, conn, cacheCfg, now, libVars>>

\* discoverDevice.go:94-114
FetchConfig ==
    /\ pc = "get_config"
    /\ \E resp \in RunResponses(CmdShowRun), fsOK \in BOOLEAN, writeOK \in BOOLEAN :
         LET r == GetConfig(device, resp, fsOK) IN
         /\ Executed(r, CmdShowRun)
         /\ IF r.err # Nil
            THEN /\ Send(Event("ConfigurationRetrieved", FALSE, 0, r.err))
                 /\ pc' = "get_interfaces" /\ ret' = ret
                 /\ UNCHANGED written
            ELSE IF ~writeOK
            THEN Return(<<"failed to save config">>) /\ UNCHANGED <<written, events>>
            ELSE /\ written' = written \cup {ConfigFile}
                 /\ Send(Event("ConfigurationRetrieved", TRUE, 0, Nil))
                 /\ pc' = "get_interfaces" /\ ret' = ret
    /\ UNCHANGED <<inputVars, pkgVars, db, showVersionOutput, device, conn, cacheCfg, now, libVars>>

\* FetchInterfaces with a failed fetch returned as the run's error.
FetchInterfaces_Fatal ==
    /\ pc = "get_interfaces"
    /\ \E resp \in RunResponses(CmdShowRun), fsOK \in BOOLEAN :
         LET r == GetConfig(device, resp, fsOK)
             interfaces == parseInterfaces(r.out)
         IN
         /\ Executed(r, CmdShowRun)
         /\ IF r.err # Nil
            THEN /\ Return(Wrap("failed to get interfaces", r.err))
                 /\ UNCHANGED <<device, events>>
            ELSE /\ device' = [device EXCEPT !.Interfaces = interfaces]
                 /\ Send(Event("InterfacesRetrieved", TRUE, Len(interfaces), Nil))
                 /\ pc' = "get_neighbors" /\ ret' = ret
    /\ UNCHANGED <<inputVars, pkgVars, written, db, showVersionOutput, conn, cacheCfg, now, libVars>>

\* discoverDevice.go:116-131 with Device.GetInterfaces
FetchInterfaces ==
    /\ pc = "get_interfaces"
    /\ \E resp \in RunResponses(CmdShowRun), fsOK \in BOOLEAN :
         LET r == GetConfig(device, resp, fsOK)
             interfaces == parseInterfaces(r.out)
         IN
         /\ Executed(r, CmdShowRun)
         /\ IF ~IsConnected(device)
            THEN /\ Send(Event("InterfacesRetrieved", FALSE, 0, <<"device not connected">>))
                 /\ UNCHANGED device
            ELSE IF r.err # Nil
            THEN /\ Send(Event("InterfacesRetrieved", FALSE, 0, r.err))
                 /\ UNCHANGED device
            ELSE /\ device' = [device EXCEPT !.Interfaces = interfaces]
                 /\ Send(Event("InterfacesRetrieved", TRUE, Len(interfaces), Nil))
    /\ pc' = "get_neighbors"
    /\ UNCHANGED <<inputVars, pkgVars, ret, written, db, showVersionOutput, conn, cacheCfg, now, libVars>>

\* discoverDevice.go:133-148 with Device.GetNeighbors
FetchNeighbors ==
    /\ pc = "get_neighbors"
    /\ \E resp \in RunResponses(CmdShowLLDP), fsOK \in BOOLEAN :
         LET r == IF ~IsConnected(device)
                  THEN [out |-> EmptyText, err |-> <<"device not connected">>, hit |-> FALSE,
                        opened |-> FALSE, started |-> FALSE, cache |-> cache]
                  ELSE ExecuteCommand(CmdShowLLDP, DefaultOptions, resp, fsOK)
             neighbors == parseNeighbors(r.out)
         IN
         /\ Executed(r, CmdShowLLDP)
         /\ IF r.err # Nil
            THEN /\ Send(Event("NeighborsRetrieved", FALSE, 0, r.err))
                 /\ UNCHANGED device
            ELSE /\ device' = [device EXCEPT !.Neighbors = neighbors]
                 /\ Send(Event("NeighborsRetrieved", TRUE, Len(neighbors), Nil))
    /\ pc' = "save_device"
    /\ UNCHANGED <<inputVars, pkgVars, ret, written, db, showVersionOutput, conn, cacheCfg, now, libVars>>

\* SaveDevice with DeviceSaved emitted before the result of the write is looked at.
SaveDevice_EventBeforeWrite ==
    /\ pc = "save_device"
    /\ \E openOK \in BOOLEAN, writeOK \in BOOLEAN :
         LET deviceInfo == [device EXCEPT !.RawOutputDir = Host] IN
         /\ device' = deviceInfo
         /\ IF ~openOK
            THEN Return(<<"failed to open database">>) /\ UNCHANGED <<db, events>>
            ELSE IF ~writeOK
            THEN /\ Return(<<"failed to save device to database">>)
                 /\ Send(Event("DeviceSaved", TRUE, 0, Nil))
                 /\ UNCHANGED db
            ELSE /\ db' = <<deviceInfo>>
                 /\ events' = events \o <<Event("DeviceSaved", TRUE, 0, Nil),
                                          Event("DiscoveryCompleted", TRUE, 0, Nil)>>
                 /\ Return(Nil)
    /\ UNCHANGED <<inputVars, pkgVars, written, showVersionOutput, clientVars, now, libVars>>

\* discoverDevice.go:150-179: open the record store, write <ip>.json, finish.
SaveDevice ==
    /\ pc = "save_device"
    /\ \E openOK \in BOOLEAN, writeOK \in BOOLEAN :
         LET deviceInfo == [device EXCEPT !.RawOutputDir = Host] IN
         /\ device' = deviceInfo
         /\ IF ~openOK
            THEN Return(<<"failed to open database">>) /\ UNCHANGED <<db, events>>
            ELSE IF ~writeOK
            THEN Return(<<"failed to save device to database">>) /\ UNCHANGED <<db, events>>
            ELSE /\ db' = <<deviceInfo>>
                 /\ events' = events \o <<Event("DeviceSaved", TRUE, 0, Nil),
                                          Event("DiscoveryCompleted", TRUE, 0, Nil)>>
                 /\ Return(Nil)
    /\ UNCHANGED <<inputVars, pkgVars, written, showVersionOutput, clientVars, now, libVars>>

\* Time passes while a run or a client is in use.
Tick ==
    /\ pc # "done"
    /\ now < MaxTime
    /\ now' = now + 1
    /\ UNCHANGED <<inputVars, pkgVars, pc, ret, events, written, db, showVersionOutput, device,
                   clientVars, libVars>>

\* ----------------------------------------------------------- initial states
\* Cache files left by earlier runs: expired, or just written.
InitMtimes == {0 - TTL - 1, 0}
HostCaches ==
    {c \in [HostPaths -> {NoFile} \cup {File(o, t) : o \in AllTexts, t \in InitMtimes}] :
        \A cmd \in Commands :
            LET f == c[getCacheFilePath(Host, cmd)] IN f.present => f.out \in Stdouts(cmd)}
\* The directories of the other devices start empty.
InitCaches ==
    {[p \in CachePaths |-> IF p \in HostPaths THEN c[p] ELSE NoFile] : c \in HostCaches}

InitRun ==
    /\ CredIdle
    /\ StreamIdle
    /\ platform \in Platforms
    /\ credStore \in CredStates
    /\ cfgTimeout = DefaultTimeout
    /\ pc = "load_creds"
    /\ ret = Running
    /\ events = <<>>
    /\ written = {}
    /\ db = <<>>
    /\ showVersionOutput = EmptyText
    /\ device = NoDevice
    /\ conn = "nil"
    /\ cacheCfg = DefaultCacheConfig
    /\ cache \in InitCaches
    /\ now = 0
    /\ sessions = 0
    /\ started = [c \in Commands |-> 0]
    /\ calls = 0
    /\ call = NoCall

\* DiscoverDevice as it is coded.
Init == InitRun /\ wired = FALSE
Next == LoadSSHCreds \/ RunShowVersion \/ Tick
Spec == Init /\ [][Next]_vars

\* DiscoverDevice with the transport connected between NewClient and the
\* identification command.
InitConn == InitRun /\ wired = TRUE
NextConn ==
    \/ LoadSSHCreds \/ ConnectTransport \/ RunShowVersion \/ SaveShowVersion \/ CreateDevice
    \/ FetchConfig \/ FetchInterfaces \/ FetchNeighbors \/ SaveDevice \/ Tick
SpecConn == InitConn /\ [][NextConn]_vars

\* ------------------------------------------------- the client as a library
\* The commands the library caller issues.
ClientCommands == {CmdShowRun, CmdShowLLDP}
\* A caller of the transport: Connect, ExecuteCommand with or without
\* OptNoCache, Close, in any order.
ClientConnect ==
    /\ pc = "lib"
    /\ calls < MaxCalls
    /\ \E dialOK \in BOOLEAN : conn' = Connect(dialOK).conn
    /\ calls' = calls + 1
    /\ UNCHANGED <<inputVars, pkgVars, pc, ret, events, written, db, showVersionOutput, device,
                   cacheCfg, cache, now, sessions, started, call>>

ClientExecuteCommand ==
    /\ pc = "lib"
    /\ calls < MaxCalls
    /\ \E cmd \in ClientCommands, noCache \in BOOLEAN, fsOK \in BOOLEAN :
         \E resp \in Responses(cmd) :
           LET opts == IF noCache THEN OptNoCache(DefaultOptions) ELSE DefaultOptions
               r == ExecuteCommand(cmd, opts, resp, fsOK)
           IN
           /\ Executed(r, cmd)
           /\ call' = [n |-> call.n + 1, cmd |-> cmd, noCache |-> noCache, out |-> r.out,
                       err |-> r.err, hit |-> r.hit, opened |-> r.opened, at |-> now]
    /\ calls' = calls + 1
    /\ UNCHANGED <<inputVars, pkgVars, pc, ret, events, written, db, showVersionOutput, device,
                   conn, cacheCfg, now>>

\* Client.Close (client.go:216-221): the connection is closed, c.conn keeps pointing to it.
Close == IF conn = "nil" THEN "nil" ELSE "closed"

ClientClose ==
    /\ pc = "lib"
    /\ calls < MaxCalls
    /\ conn' = Close
    /\ calls' = calls + 1
    /\ UNCHANGED <<inputVars, pkgVars, pc, ret, events, written, db, showVersionOutput, device,
                   cacheCfg, cache, now, sessions, started, call>>

InitClient ==
    /\ CredIdle
    /\ StreamIdle
    /\ platform = "linux"
    /\ credStore = "stored"
    /\ wired = FALSE
    /\ cfgTimeout = DefaultTimeout
    /\ pc = "lib"
    /\ ret = Running
    /\ events = <<>>
    /\ written = {}
    /\ db = <<>>
    /\ showVersionOutput = EmptyText
    /\ device = NoDevice
    /\ conn = "nil"
    /\ cacheCfg \in {[Enabled |-> e, TTL |-> TTL] : e \in BOOLEAN}
    /\ cache \in {c \in InitCaches : ~c[getCacheFilePath(Host, CmdShowVersion)].present}
    /\ now = 0
    /\ sessions = 0
    /\ started = [c \in Commands |-> 0]
    /\ calls = 0
    /\ call = NoCall

NextClient == ClientConnect \/ ClientExecuteCommand \/ ClientClose \/ Tick
SpecClient == InitClient /\ [][NextClient]_vars

\* ------------------------------------------------ one ExecuteCommand call
\* One call of ExecuteCommand with any options, on a client and a cache
\* directory in any state, against any behaviour of the device.
ExecOnce ==
    /\ pc = "exec"
    /\ \E cmd \in ClientCommands, opts \in Options, fsOK \in BOOLEAN :
         \E resp \in Responses(cmd) :
           LET r == ExecuteCommand(cmd, opts, resp, fsOK) IN
           /\ Executed(r, cmd)
           /\ call' = [n |-> 1, cmd |-> cmd, noCache |-> opts.noCache, out |-> r.out,
                       err |-> r.err, hit |-> r.hit, opened |-> r.opened, at |-> now,
                       opts |-> opts, resp |-> resp, fsOK |-> fsOK]
    /\ pc' = "done"
    /\ UNCHANGED <<inputVars, pkgVars, ret, events, written, db, showVersionOutput, device,
                   conn, cacheCfg, now, calls>>

InitExec ==
    /\ CredIdle
    /\ StreamIdle
    /\ platform = "linux"
    /\ credStore = "stored"
    /\ wired = FALSE
    /\ cfgTimeout = DefaultTimeout
    /\ pc = "exec"
    /\ ret = Running
    /\ events = <<>>
    /\ written = {}
    /\ db = <<>>
    /\ showVersionOutput = EmptyText
    /\ device = NoDevice
    /\ conn \in {"nil", "open", "closed"}
    /\ cacheCfg \in {[Enabled |-> e, TTL |-> TTL] : e \in BOOLEAN}
    /\ cache \in {c \in InitCaches : ~c[getCacheFilePath(Host, CmdShowVersion)].present}
    /\ now = 0
    /\ sessions = 0
    /\ started = [c \in Commands |-> 0]
    /\ calls = 0
    /\ call = NoCall

NextExec == ExecOnce \/ Tick
SpecExec == InitExec /\ [][NextExec]_vars

\* --------------------------------------- calls on a client with a set timeout
\* ExecuteCommand with the options the caller passes, on a connected client
\* made with any Config.Timeout.
ExecWithOptions ==
    /\ pc = "exec_opts" /\ calls < MaxCalls
    /\ \E cmd \in ClientCommands, passed \in OptionLists, fsOK \in BOOLEAN :
         \E resp \in RunResponses(cmd) :
           LET opts == ParseOptions(passed)
               r == ExecuteCommand(cmd, opts, resp, fsOK)
           IN
           /\ Executed(r, cmd)
           /\ call' = [n |-> calls + 1, cmd |-> cmd, passed |-> passed, opts |-> opts,
                       out |-> r.out, err |-> r.err, hit |-> r.hit, opened |-> r.opened,
                       resp |-> resp]
    /\ calls' = calls + 1
    /\ UNCHANGED <<inputVars, pkgVars, pc, ret, events, written, db, showVersionOutput, device,
                   conn, cacheCfg, now>>

InitTimeout ==
    /\ CredIdle
    /\ StreamIdle
    /\ platform = "linux"
    /\ credStore = "stored"
    /\ wired = FALSE
    /\ cfgTimeout \in {NewClientTimeout(t) : t \in ConfigTimeouts}
    /\ pc = "exec_opts"
    /\ ret = Running
    /\ events = <<>>
    /\ written = {}
    /\ db = <<>>
    /\ showVersionOutput = EmptyText
    /\ device = NoDevice
    /\ conn = "open"
    /\ cacheCfg = DefaultCacheConfig
    /\ cache = [p \in CachePaths |-> NoFile]
    /\ now = 0
    /\ sessions = 0
    /\ started = [c \in Commands |-> 0]
    /\ calls = 0
    /\ call = [n |-> 0, cmd |-> "", passed |-> <<>>, opts |-> DefaultOptions,
               out |-> EmptyText, err |-> Nil, hit |-> FALSE, opened |-> FALSE,
               resp |-> [kind |-> "none"]]

NextTimeout == ExecWithOptions
SpecTimeout == InitTimeout /\ [][NextTimeout]_vars

\* ------------------------------------------------- the cache as a library
\* A caller of CommandCache: SaveOutput and GetCachedOutput under any key,
\* in any order, while time passes.
CacheKeys == Devices \X ClientCommands
CacheOutputs == {<<LPort1, LSysName>>, <<LIf1, LName, LExit, LVlan10>>}

CacheSave ==
    /\ pc = "cache"
    /\ calls < MaxCalls
    /\ \E k \in CacheKeys, output \in CacheOutputs, fsOK \in BOOLEAN :
         LET r == SaveOutput(k[1], k[2], output, fsOK) IN
         /\ cache' = r.cache
         /\ call' = [op |-> "save", dev |-> k[1], cmd |-> k[2], out |-> output,
                     err |-> r.err, found |-> FALSE, at |-> now]
    /\ calls' = calls + 1
    /\ UNCHANGED <<inputVars, pkgVars, pc, ret, events, written, db, showVersionOutput, device,
                   conn, cacheCfg, now, sessions, started>>

CacheGet ==
    /\ pc = "cache"
    /\ calls < MaxCalls
    /\ \E k \in CacheKeys :
         LET r == GetCachedOutput(k[1], k[2]) IN
         call' = [op |-> "get", dev |-> k[1], cmd |-> k[2], out |-> r.out,
                  err |-> Nil, found |-> r.found, at |-> now]
    /\ calls' = calls + 1
    /\ UNCHANGED <<inputVars, pkgVars, pc, ret, events, written, db, showVersionOutput, device,
                   conn, cacheCfg, cache, now, sessions, started>>

\* The cache directory at the start: empty, or holding one file of the host
\* that is fresh, expired, or fresh and not readable.
InitCacheDirs ==
    LET empty == [p \in CachePaths |-> NoFile]
        p0 == getCacheFilePath(Host, CmdShowLLDP)
        o == <<LPort1, LSysName>>
    IN {empty} \cup {[empty EXCEPT ![p0] = f] :
                        f \in {File(o, 0), File(o, 0 - TTL - 1), UnreadableFile(o, 0)}}

InitCache ==
    /\ CredIdle
    /\ StreamIdle
    /\ platform = "linux"
    /\ credStore = "stored"
    /\ wired = FALSE
    /\ cfgTimeout = DefaultTimeout
    /\ pc = "cache"
    /\ ret = Running
    /\ events = <<>>
    /\ written = {}
    /\ db = <<>>
    /\ showVersionOutput = EmptyText
    /\ device = NoDevice
    /\ conn = "nil"
    /\ cacheCfg \in {[Enabled |-> e, TTL |-> TTL] : e \in BOOLEAN}
    /\ cache \in InitCacheDirs
    /\ now = 0
    /\ sessions = 0
    /\ started = [c \in Commands |-> 0]
    /\ calls = 0
    /\ call = [op |-> "none", dev |-> Host, cmd |-> CmdShowLLDP, out |-> EmptyText,
               err |-> Nil, found |-> FALSE, at |-> 0]

NextCache == CacheSave \/ CacheGet \/ Tick
SpecCache == InitCache /\ [][NextCache]_vars

\* ------------------------------------------- detector and adapter factory
\* Identification texts: up to MaxLines lines of the vocabulary.
SvLines == {LHP, LRev, LArubaOS, LAruba, LCisco, LOther, LTab, LNexus, LJunos, LArista,
            LMixed, LEos, LSerial, LSerial2, LUptime, LUptime2, LBoot}
SvTexts == {EmptyText} \cup UNION {[1..n -> SvLines] : n \in 1..MaxLines}

\* netdevice.NewDevice on an identification text.
IdentifyDevice ==
    /\ pc = "identify"
    /\ LET r == NewDevice(showVersionOutput) IN
       /\ device' = r.device
       /\ ret' = r.err
       /\ call' = [op |-> "NewDevice", deviceType |-> DetectDeviceType(showVersionOutput)]
    /\ pc' = "done"
    /\ UNCHANGED <<inputVars, pkgVars, events, written, db, showVersionOutput, clientVars, now, calls>>

\* genericaruba.NewDevice on an identification text.
ConstructAruba ==
    /\ pc = "identify"
    /\ LET r == ArubaNewDevice(showVersionOutput) IN
       /\ device' = r.device
       /\ ret' = r.err
       /\ call' = [op |-> "genericaruba.NewDevice", deviceType |-> "generic_aruba"]
    /\ pc' = "done"
    /\ UNCHANGED <<inputVars, pkgVars, events, written, db, showVersionOutput, clientVars, now, calls>>

\* genericaruba.ParseShowVersion on an identification text.
ParseVersion ==
    /\ pc = "identify"
    /\ call' = [op |-> "ParseShowVersion", deviceType |-> "",
                fields |-> ParseShowVersion(showVersionOutput)]
    /\ pc' = "done"
    /\ UNCHANGED <<inputVars, pkgVars, ret, events, written, db, showVersionOutput, device,
                   clientVars, now, calls>>

InitDetect ==
    /\ CredIdle
    /\ StreamIdle
    /\ platform = "linux"
    /\ credStore = "stored"
    /\ wired = FALSE
    /\ cfgTimeout = DefaultTimeout
    /\ pc = "identify"
    /\ ret = Running
    /\ events = <<>>
    /\ written = {}
    /\ db = <<>>
    /\ showVersionOutput \in SvTexts
    /\ device = NoDevice
    /\ conn = "open"
    /\ cacheCfg = DefaultCacheConfig
    /\ cache = [p \in CachePaths |-> NoFile]
    /\ now = 0
    /\ sessions = 0
    /\ started = [c \in Commands |-> 0]
    /\ calls = 0
    /\ call = [op |-> "none", deviceType |-> ""]

NextDetect == IdentifyDevice \/ ConstructAruba \/ ParseVersion
SpecDetect == InitDetect /\ [][NextDetect]_vars

\* ----------------------------------------------------- VLAN string parsing
\* The comma-separated tokens of a VLAN string.
Tok10 == <<"1", "0">>
Tok7 == <<"7">>
TokSpaced == <<" ", "5", " ">>
Tok12to14 == <<"1", "2", "-", "1", "4">>
Tok14to12 == <<"1", "4", "-", "1", "2">>
TokOpenRange == <<"1", "2", "-">>
TokNoStart == <<"-", "3">>
TokTwoHyphens == <<"1", "-", "2", "-", "3">>
TokEmpty == <<>>
TokWord == <<"x">>
VlanTokens == {Tok10, Tok7, TokSpaced, Tok12to14, Tok14to12, TokOpenRange, TokNoStart,
               TokTwoHyphens, TokEmpty, TokWord}
VlanTokenLists == UNION {[1..n -> VlanTokens] : n \in 1..MaxTokens}

\* The string whose comma-separated tokens are toks.
RECURSIVE JoinComma(_)
JoinComma(toks) ==
    IF Len(toks) = 1 THEN toks[1] ELSE toks[1] \o <<",">> \o JoinComma(Tail(toks))

\* One call of parseVLANString.
ParseVlans ==
    /\ pc = "parse_vlans"
    /\ call' = [call EXCEPT !.op = "parseVLANString", !.vlans = parseVLANString(call.vlanStr)]
    /\ pc' = "done"
    /\ UNCHANGED <<inputVars, pkgVars, ret, events, written, db, showVersionOutput, device, clientVars,
                   now, calls>>

\* The orchestrator and the client at rest.
InitIdleRun ==
    /\ platform = "linux"
    /\ credStore = "stored"
    /\ wired = FALSE
    /\ cfgTimeout = DefaultTimeout
    /\ ret = Running
    /\ events = <<>>
    /\ written = {}
    /\ db = <<>>
    /\ showVersionOutput = EmptyText
    /\ device = NoDevice
    /\ conn = "open"
    /\ cacheCfg = DefaultCacheConfig
    /\ cache = [p \in CachePaths |-> NoFile]
    /\ now = 0
    /\ sessions = 0
    /\ started = [c \in Commands |-> 0]
    /\ calls = 0

\* Every variable that parsing does not use.
InitIdle == InitIdleRun /\ CredIdle /\ StreamIdle

InitVlan ==
    /\ InitIdle
    /\ pc = "parse_vlans"
    /\ \E toks \in VlanTokenLists :
         call = [op |-> "none", tokens |-> toks, vlanStr |-> JoinComma(toks), vlans |-> <<>>]

NextVlan == ParseVlans
SpecVlan == InitVlan /\ [][NextVlan]_vars

\* ------------------------------------------------------- interface parsing
\* Configuration texts are built from blocks, closed by exit or left open,
\* and from runs of lines that start no block.
CfgParts ==
    {<<LIf1, LName, LUntagged, LExit>>,
     <<LIf2, LDesc, LTaggedBad, LExit>>,
     <<LVlan10, LIpMask, LVrf>>,
     <<LIf2, LIpCidr>>,
     <<LIf1>>,
     <<LExit>>,
     <<LHostname, LName, LUntagged>>,
     <<LLong>>}
RECURSIVE Flatten(_)
Flatten(parts) == IF parts = <<>> THEN <<>> ELSE Head(parts) \o Flatten(Tail(parts))
Configs == {Flatten(ps) : ps \in UNION {[1..n -> CfgParts] : n \in 0..MaxBlocks}}

\* One call of Device.parseInterfaces.
ParseInterfaces ==
    /\ pc = "parse_interfaces"
    /\ call' = [call EXCEPT !.op = "parseInterfaces",
                            !.interfaces = parseInterfaces(call.config)]
    /\ pc' = "done"
    /\ UNCHANGED <<inputVars, pkgVars, ret, events, written, db, showVersionOutput, device, clientVars,
                   now, calls>>

InitIfaces ==
    /\ InitIdle
    /\ pc = "parse_interfaces"
    /\ \E config \in Configs : call = [op |-> "none", config |-> config, interfaces |-> <<>>]

NextIfaces == ParseInterfaces
SpecIfaces == InitIfaces /\ [][NextIfaces]_vars

\* -------------------------------------------------------- neighbor parsing
\* LLDP texts are built from records, from field lines that follow no record
\* start, and from blank, separator and banner lines.
LldpParts ==
    {<<LPort1, LChassis, LPortId, LSysName>>,
     <<LPort2, LSysName2, LSysName, LDescr>>,
     <<LTable>>,
     <<LTable, LSysName2, LCaps>>,
     <<LPort1>>,
     <<LSysName, LAddr>>,
     <<LEmpty, LSep, LBanner>>,
     <<LBlank, LAddr, LSepEq>>,
     <<LLong>>}
LldpTexts == {Flatten(ps) : ps \in UNION {[1..n -> LldpParts] : n \in 0..MaxBlocks}}

\* One call of Device.parseNeighbors.
ParseNeighbors ==
    /\ pc = "parse_neighbors"
    /\ call' = [call EXCEPT !.op = "parseNeighbors",
                            !.neighbors = parseNeighbors(call.output)]
    /\ pc' = "done"
    /\ UNCHANGED <<inputVars, pkgVars, ret, events, written, db, showVersionOutput, device, clientVars,
                   now, calls>>

InitNeigh ==
    /\ InitIdle
    /\ pc = "parse_neighbors"
    /\ \E output \in LldpTexts : call = [op |-> "none", output |-> output, neighbors |-> <<>>]

NextNeigh == ParseNeighbors
SpecNeigh == InitNeigh /\ [][NextNeigh]_vars

\* ------------------------------------- storing and loading a user credential
CredBytes == {LetterA, Colon}
CredStrings == UNION {[1..n -> CredBytes] : n \in 0..MaxChars}
NoCredCall == [op |-> "none", username |-> <<>>, password |-> <<>>, err |-> Nil]

\* What a method of the manager leaves behind.
CredApply(r) ==
    /\ credCache' = r.credCache
    /\ credFile' = r.credFile
    /\ credInit' = TRUE
    /\ pc' = IF r.panic THEN "crashed" ELSE pc

\* WriteUserCred(SSHCredSecretName, NewUnPw(username, password))
StoreUserCred ==
    /\ pc = "store"
    /\ \E username \in CredStrings, password \in CredStrings,
          loadOK \in BOOLEAN, saveOK \in BOOLEAN :
         LET cred == NewUnPw(username, password)
             r == WriteUserCred(SSHCredSecretName, cred, loadOK, saveOK)
         IN
         /\ credCache' = r.credCache
         /\ credFile' = r.credFile
         /\ credInit' = TRUE
         /\ pc' = "load"
         /\ lastWrite' = IF r.err = Nil
                         THEN [lastWrite EXCEPT ![SSHCredSecretName] = Entry(marshal(cred))]
                         ELSE lastWrite
         /\ call' = [op |-> "WriteUserCred", username |-> username, password |-> password,
                     err |-> r.err]
    /\ calls' = calls + 1
    /\ UNCHANGED <<inputVars, streamVars, ret, events, written, db, showVersionOutput, device,
                   clientVars, now>>

\* ReadUserCred(SSHCredSecretName)
LoadUserCred ==
    /\ pc \in {"store", "load"}
    /\ \E loadOK \in BOOLEAN :
         LET r == LinuxReadUserCred(SSHCredSecretName, loadOK) IN
         /\ credCache' = r.credCache
         /\ credInit' = TRUE
         /\ call' = [op |-> "ReadUserCred", username |-> Username(r.cred),
                     password |-> Password(r.cred), err |-> r.err]
    /\ pc' = "done"
    /\ calls' = calls + 1
    /\ UNCHANGED <<inputVars, streamVars, ret, events, written, db, showVersionOutput,
                   device, clientVars, now, credFile, lastWrite>>

\* A new manager over a file that is absent or holds one blob under the name.
InitUnPw ==
    /\ InitIdleRun
    /\ StreamIdle
    /\ pc = "store"
    /\ call = NoCredCall
    /\ credCache = CredMap(EmptyMap)
    /\ credInit = FALSE
    /\ lastWrite = EmptyMap
    /\ credFile \in {AbsentFile} \cup
                    {CredFile([EmptyMap EXCEPT ![SSHCredSecretName] = Entry(b)]) :
                        b \in CredStrings}

NextUnPw == StoreUserCred \/ LoadUserCred
SpecUnPw == InitUnPw /\ [][NextUnPw]_vars

\* -------------------------------------------- calls on the credential manager
CredData == {<<LetterA>>, <<LetterA, Colon>>}
CredMaps == [CredNames -> {NoEntry} \cup {Entry(d) : d \in CredData}]
NoMgrCall == [op |-> "none", name |-> "", data |-> <<>>, names |-> {}, err |-> Nil]

CredRead ==
    /\ pc = "cred" /\ calls < MaxCalls
    /\ \E name \in CredNames, loadOK \in BOOLEAN :
         LET r == Read(name, loadOK) IN
         /\ CredApply(r)
         /\ call' = [op |-> "Read", name |-> name, data |-> r.data, names |-> {},
                     err |-> r.err]
    /\ calls' = calls + 1
    /\ UNCHANGED <<inputVars, streamVars, ret, events, written, db, showVersionOutput, device,
                   clientVars, now, lastWrite>>

CredWrite ==
    /\ pc = "cred" /\ calls < MaxCalls
    /\ \E name \in CredNames, data \in CredData, loadOK \in BOOLEAN, saveOK \in BOOLEAN :
         LET r == Write(name, data, loadOK, saveOK) IN
         /\ CredApply(r)
         /\ lastWrite' = IF r.err = Nil THEN [lastWrite EXCEPT ![name] = Entry(data)]
                         ELSE lastWrite
         /\ call' = [op |-> "Write", name |-> name, data |-> data, names |-> {},
                     err |-> r.err]
    /\ calls' = calls + 1
    /\ UNCHANGED <<inputVars, streamVars, ret, events, written, db, showVersionOutput, device,
                   clientVars, now>>

CredDelete ==
    /\ pc = "cred" /\ calls < MaxCalls
    /\ \E name \in CredNames, loadOK \in BOOLEAN, saveOK \in BOOLEAN :
         LET r == Delete(name, loadOK, saveOK) IN
         /\ CredApply(r)
         /\ lastWrite' = IF r.err = Nil THEN [lastWrite EXCEPT ![name] = NoEntry]
                         ELSE lastWrite
         /\ call' = [op |-> "Delete", name |-> name, data |-> <<>>, names |-> {},
                     err |-> r.err]
    /\ calls' = calls + 1
    /\ UNCHANGED <<inputVars, streamVars, ret, events, written, db, showVersionOutput, device,
                   clientVars, now>>

CredList ==
    /\ pc = "cred" /\ calls < MaxCalls
    /\ \E loadOK \in BOOLEAN :
         LET r == List(loadOK) IN
         /\ CredApply(r)
         /\ call' = [op |-> "List", name |-> "", data |-> <<>>, names |-> r.data,
                     err |-> r.err]
    /\ calls' = calls + 1
    /\ UNCHANGED <<inputVars, streamVars, ret, events, written, db, showVersionOutput, device,
                   clientVars, now, lastWrite>>

\* A new manager over the file that earlier writes left.
InitCred ==
    /\ InitIdleRun
    /\ StreamIdle
    /\ pc = "cred"
    /\ call = NoMgrCall
    /\ credCache = CredMap(EmptyMap)
    /\ credInit = FALSE
    /\ credFile \in {AbsentFile, CorruptFile} \cup {CredFile(m) : m \in CredMaps}
    /\ lastWrite = credFile.m

NextCred == CredRead \/ CredWrite \/ CredDelete \/ CredList
SpecCred == InitCred /\ [][NextCred]_vars

\* ------------------------------------ the drain of one started command
\* executeCommandInternal after session.Start: the device writes to the two
\* streams of the session, the reader goroutine drains them, the caller
\* waits in select for the result or the timeout.  Data comes in chunks; the
\* session takes Window chunks that nobody has read, on both streams
\* together, before the device has to wait.
Scripts == UNION {[1..n -> {"out", "err"}] : n \in 0..MaxChunks}
NoResult == [output |-> <<0, 0>>, err |-> Nil]
\* The result the goroutine builds after session.Wait: out chunks of stdout,
\* err chunks of stderr.
DrainResult(out, err, waitErr) ==
    IF waitErr /\ out = 0 THEN [output |-> <<0, 0>>, err |-> <<"command failed">>]
    ELSE [output |-> <<out, err>>, err |-> Nil]
\* make(chan result, 1): a send completes when the buffer has room or the
\* caller is receiving.
ResultChanSend_Unbuffered(ch, receiving) == receiving
ResultChanSend(ch, receiving) == Len(ch) < 1 \/ receiving

DrainCall(f) == call' = f @@ call
DrainFrame ==
    UNCHANGED <<inputVars, pkgVars, pc, ret, events, written, db, showVersionOutput, device,
                clientVars, now, calls>>
Reading == call.main = "select"

\* The device writes the next chunk of its output.
DeviceWrite ==
    /\ pc = "drain"
    /\ ~call.sessionClosed /\ call.script # <<>> /\ call.window > 0
    /\ IF Head(call.script) = "out"
       THEN DrainCall([script |-> Tail(call.script), window |-> call.window - 1,
                       stdoutBuf |-> call.stdoutBuf + 1])
       ELSE DrainCall([script |-> Tail(call.script), window |-> call.window - 1,
                       stderrBuf |-> call.stderrBuf + 1])
    /\ DrainFrame

\* The command ends: both streams reach EOF.
DeviceEOF ==
    /\ pc = "drain"
    /\ ~call.sessionClosed /\ call.script = <<>> /\ ~call.eof
    /\ DrainCall([eof |-> TRUE])
    /\ DrainFrame

\* io.ReadAll(stdout): one chunk, or EOF.
DrainReadStdout ==
    /\ pc = "drain"
    /\ call.drain = "read_stdout"
    /\ IF call.stdoutBuf > 0
       THEN DrainCall([stdoutBuf |-> call.stdoutBuf - 1, window |-> call.window + 1,
                       out |-> call.out + 1])
       ELSE /\ call.eof \/ call.sessionClosed
            /\ DrainCall([drain |-> "read_stderr"])
    /\ DrainFrame

\* io.ReadAll(stderr), after stdout has reached EOF.
DrainReadStderr ==
    /\ pc = "drain"
    /\ call.drain = "read_stderr"
    /\ IF call.stderrBuf > 0
       THEN DrainCall([stderrBuf |-> call.stderrBuf - 1, window |-> call.window + 1,
                       err |-> call.err + 1])
       ELSE /\ call.eof \/ call.sessionClosed
            /\ DrainCall([drain |-> "wait"])
    /\ DrainFrame

\* A read fails.
DrainReadFail ==
    /\ pc = "drain"
    /\ call.drain \in {"read_stdout", "read_stderr"}
    /\ DrainCall([drain |-> "send",
                  result |-> [output |-> <<0, 0>>,
                              err |-> IF call.drain = "read_stdout"
                                      THEN <<"failed to read stdout">>
                                      ELSE <<"failed to read stderr">>]])
    /\ DrainFrame

\* session.Wait and the result.
DrainWait ==
    /\ pc = "drain"
    /\ call.drain = "wait"
    /\ \E waitErr \in BOOLEAN :
         DrainCall([drain |-> "send", result |-> DrainResult(call.out, call.err, waitErr)])
    /\ DrainFrame

\* resultChan <- result{...}, and the goroutine returns.
DrainSend ==
    /\ pc = "drain"
    /\ call.drain = "send"
    /\ ResultChanSend(call.resultChan, Reading)
    /\ DrainCall([drain |-> "done", resultChan |-> Append(call.resultChan, call.result)])
    /\ DrainFrame

\* case res := <-resultChan; the deferred session.Close runs.
SelectResult ==
    /\ pc = "drain"
    /\ Reading /\ call.resultChan # <<>>
    /\ DrainCall([main |-> "returned", returned |-> Head(call.resultChan),
                  resultChan |-> Tail(call.resultChan), sessionClosed |-> TRUE])
    /\ DrainFrame

\* case <-time.After(opts.timeout); the deferred session.Close runs.
SelectTimeout ==
    /\ pc = "drain"
    /\ Reading
    /\ DrainCall([main |-> "timeout",
                  returned |-> [output |-> <<0, 0>>, err |-> ErrTimeout(call.opts.timeout)],
                  sessionClosed |-> TRUE])
    /\ DrainFrame

InitDrain ==
    /\ InitIdleRun
    /\ CredIdle
    /\ StreamIdle
    /\ pc = "drain"
    /\ \E script \in Scripts :
         call = [script |-> script, opts |-> DefaultOptions, window |-> Window,
                 stdoutBuf |-> 0, stderrBuf |-> 0, eof |-> FALSE, out |-> 0, err |-> 0,
                 drain |-> "read_stdout", result |-> NoResult, resultChan |-> <<>>,
                 main |-> "select", returned |-> NoResult, sessionClosed |-> FALSE]

NextDrain ==
    \/ DeviceWrite
    \/ DeviceEOF
    \/ DrainReadStdout
    \/ DrainReadStderr
    \/ DrainReadFail
    \/ DrainWait
    \/ DrainSend
    \/ SelectResult
    \/ SelectTimeout
SpecDrain == InitDrain /\ [][NextDrain]_vars

\* ------------------------------------- concurrent calls on the manager
\* The goroutines that call Write and Delete on the one manager.
Goroutines == {1, 2}
\* A goroutine between calls: n calls returned, all of them with nil when ok.
IdleCall == [pc |-> "idle", op |-> "none", name |-> "", data |-> <<>>, copy |-> EmptyMap,
             err |-> Nil, n |-> 0, ok |-> TRUE]
Returned(c, err) ==
    [c EXCEPT !.pc = "idle", !.err = err, !.n = c.n + 1, !.ok = c.ok /\ err = Nil]

\* Write or Delete up to its getCache.
ConcGetCache(g) ==
    /\ pc = "cred_conc" /\ calls < MaxCalls
    /\ call[g].pc = "idle"
    /\ \E op \in {"Write", "Delete"}, name \in CredNames, data \in CredData, loadOK \in BOOLEAN :
         LET c == getCache(loadOK)
             begun == [call[g] EXCEPT !.op = op, !.name = name,
                                      !.data = IF op = "Write" THEN data ELSE <<>>]
         IN
         /\ credCache' = c.cache
         /\ credInit' = TRUE
         /\ call' = [call EXCEPT ![g] = IF c.err # Nil THEN Returned(begun, c.err)
                                        ELSE [begun EXCEPT !.pc = "lock", !.err = Nil]]
    /\ calls' = calls + 1
    /\ UNCHANGED <<inputVars, streamVars, pc, ret, events, written, db, showVersionOutput,
                   device, clientVars, now, credFile, lastWrite>>

\* Write: cache[name] = value under credCacheMutex.Lock.
ConcWriteLocked(g) ==
    /\ pc = "cred_conc"
    /\ call[g].pc = "lock" /\ call[g].op = "Write"
    /\ IF credCache.nil
       THEN /\ pc' = "crashed"
            /\ call' = [call EXCEPT ![g] = Returned(@, PanicNilMap)]
            /\ UNCHANGED credCache
       ELSE /\ credCache' = CredMap([credCache.m EXCEPT ![call[g].name] = Entry(call[g].data)])
            /\ call' = [call EXCEPT ![g].pc = "copy"]
            /\ UNCHANGED pc
    /\ UNCHANGED <<inputVars, streamVars, ret, events, written, db, showVersionOutput,
                   device, clientVars, now, calls, credInit, credFile, lastWrite>>

\* Delete: the lookup and delete(cache, name) under credCacheMutex.Lock.
ConcDeleteLocked(g) ==
    /\ pc = "cred_conc"
    /\ call[g].pc = "lock" /\ call[g].op = "Delete"
    /\ IF credCache.nil \/ ~credCache.m[call[g].name].present
       THEN /\ call' = [call EXCEPT ![g] = Returned(@, ErrCredNotFound(call[g].name))]
            /\ UNCHANGED credCache
       ELSE /\ credCache' = CredMap([credCache.m EXCEPT ![call[g].name] = NoEntry])
            /\ call' = [call EXCEPT ![g].pc = "copy"]
    /\ UNCHANGED <<inputVars, streamVars, pc, ret, events, written, db, showVersionOutput,
                   device, clientVars, now, calls, credInit, credFile, lastWrite>>

\* The copy of the map under credCacheMutex.RLock.
ConcCopy(g) ==
    /\ pc = "cred_conc"
    /\ call[g].pc = "copy"
    /\ call' = [call EXCEPT ![g].copy = credCache.m, ![g].pc = "save"]
    /\ UNCHANGED <<inputVars, streamVars, pc, ret, events, written, db, showVersionOutput,
                   device, clientVars, now, calls, credVars>>

\* saveCredentials(cacheCopy), outside any lock, and the return.
ConcSave(g) ==
    /\ pc = "cred_conc"
    /\ call[g].pc = "save"
    /\ \E saveOK \in BOOLEAN :
         /\ credFile' = IF saveOK THEN CredFile(call[g].copy) ELSE credFile
         /\ call' = [call EXCEPT ![g] = Returned(@, IF saveOK THEN Nil ELSE ErrSave)]
    /\ UNCHANGED <<inputVars, streamVars, pc, ret, events, written, db, showVersionOutput,
                   device, clientVars, now, calls, credCache, credInit, lastWrite>>

InitCredConc ==
    /\ InitIdleRun
    /\ StreamIdle
    /\ pc = "cred_conc"
    /\ call = [g \in Goroutines |-> IdleCall]
    /\ credCache = CredMap(EmptyMap)
    /\ credInit = FALSE
    /\ credFile \in {AbsentFile, CredFile([EmptyMap EXCEPT !["api-key"] = Entry(<<LetterA>>)])}
    /\ lastWrite = credFile.m

NextCredConc ==
    \E g \in Goroutines :
        \/ ConcGetCache(g)
        \/ ConcWriteLocked(g)
        \/ ConcDeleteLocked(g)
        \/ ConcCopy(g)
        \/ ConcSave(g)
SpecCredConc == InitCredConc /\ [][NextCredConc]_vars

\* ------------------------------------------------ the adapter's sub-fetches
\* DeviceInfo.DiscoveredAt and LastUpdated as NewDevice sets them at time t.
Stamped(d, t) == d @@ [DiscoveredAt |-> t, LastUpdated |-> t]
\* The adapter of an HP switch, created when the run started.
FetchDevice == Stamped(ArubaNewDevice(<<LHP, LRev>>).device, 0)

\* Device.GetConfig
AdapterGetConfig ==
    /\ pc = "fetch" /\ calls < MaxCalls
    /\ \E resp \in RunResponses(CmdShowRun), fsOK \in BOOLEAN :
         LET r == GetConfig(device, resp, fsOK) IN
         /\ Executed(r, CmdShowRun)
         /\ call' = [op |-> "GetConfig", err |-> r.err, at |-> now]
    /\ calls' = calls + 1
    /\ UNCHANGED <<inputVars, pkgVars, pc, ret, events, written, db, showVersionOutput, device,
                   conn, cacheCfg, now>>

\* Device.GetInterfaces
AdapterGetInterfaces ==
    /\ pc = "fetch" /\ calls < MaxCalls
    /\ \E resp \in RunResponses(CmdShowRun), fsOK \in BOOLEAN :
         LET r == GetConfig(device, resp, fsOK) IN
         /\ Executed(r, CmdShowRun)
         /\ device' = IF r.err # Nil THEN device
                      ELSE [device EXCEPT !.Interfaces = parseInterfaces(r.out),
                                          !.LastUpdated = now]
         /\ call' = [op |-> "GetInterfaces", err |-> r.err, at |-> now]
    /\ calls' = calls + 1
    /\ UNCHANGED <<inputVars, pkgVars, pc, ret, events, written, db, showVersionOutput,
                   conn, cacheCfg, now>>

\* Device.GetNeighbors
AdapterGetNeighbors ==
    /\ pc = "fetch" /\ calls < MaxCalls
    /\ \E resp \in RunResponses(CmdShowLLDP), fsOK \in BOOLEAN :
         LET r == ExecuteCommand(CmdShowLLDP, DefaultOptions, resp, fsOK) IN
         /\ Executed(r, CmdShowLLDP)
         /\ device' = IF r.err # Nil THEN device
                      ELSE [device EXCEPT !.Neighbors = parseNeighbors(r.out),
                                          !.LastUpdated = now]
         /\ call' = [op |-> "GetNeighbors", err |-> r.err, at |-> now]
    /\ calls' = calls + 1
    /\ UNCHANGED <<inputVars, pkgVars, pc, ret, events, written, db, showVersionOutput,
                   conn, cacheCfg, now>>

\* An adapter on a client in any state, over the cache files earlier runs left.
InitFetch ==
    /\ CredIdle
    /\ StreamIdle
    /\ platform = "linux"
    /\ credStore = "stored"
    /\ wired = FALSE
    /\ cfgTimeout = DefaultTimeout
    /\ pc = "fetch"
    /\ ret = Running
    /\ events = <<>>
    /\ written = {}
    /\ db = <<>>
    /\ showVersionOutput = <<LHP, LRev>>
    /\ device = FetchDevice
    /\ conn \in {"nil", "open", "closed"}
    /\ cacheCfg = DefaultCacheConfig
    /\ cache \in {c \in InitCaches : ~c[getCacheFilePath(Host, CmdShowVersion)].present}
    /\ now = 0
    /\ sessions = 0
    /\ started = [c \in Commands |-> 0]
    /\ calls = 0
    /\ call = [op |-> "NewDevice", err |-> Nil, at |-> 0]

NextFetch == AdapterGetConfig \/ AdapterGetInterfaces \/ AdapterGetNeighbors \/ Tick
SpecFetch == InitFetch /\ [][NextFetch]_vars

\* --------------------------------------------------- the handler under load
\* Send, first half: CreateEvent builds the event; nothing of the handler is
\* locked yet.
SendCreate(s) ==
    /\ pc = "stream" /\ calls < MaxSends
    /\ senders[s].pc = "idle"
    /\ calls' = calls + 1
    /\ senders' = [senders EXCEPT ![s] = [IdleSender EXCEPT !.pc = "created",
                                                            !.ev = calls + 1]]
    /\ UNCHANGED <<inputVars, credVars, receivers, closed, chans, pc, ret, events, written,
                   db, showVersionOutput, device, clientVars, now, call>>

\* sendEvent: RLock, and the return when the handler is closed.
SendLock(s) ==
    /\ pc = "stream"
    /\ senders[s].pc = "created"
    /\ IF closed
       THEN /\ senders' = [senders EXCEPT ![s] = IdleSender]
            /\ call' = SendCall(0, 0)
       ELSE /\ senders' = [senders EXCEPT ![s].pc = "loop", ![s].i = 1]
            /\ UNCHANGED call
    /\ UNCHANGED <<inputVars, credVars, receivers, closed, chans, pc, ret, events, written,
                   db, showVersionOutput, device, clientVars, now, calls>>

\* sendEvent: one turn of the loop over h.receivers.
SendDeliver(s) ==
    /\ pc = "stream"
    /\ senders[s].pc = "loop"
    /\ senders[s].i <= Len(receivers)
    /\ LET i == senders[s].i
           ch == receivers[i]
           r == TrySend(chans[ch].queue, senders[s].ev)
       IN
       /\ chans' = [chans EXCEPT ![ch].queue = r.queue]
       /\ senders' = [senders EXCEPT
              ![s].i = IF r.blocked THEN i ELSE i + 1,
              ![s].got = IF r.sent THEN @ \cup {i} ELSE @,
              ![s].skipped = IF r.sent \/ r.blocked THEN @ ELSE @ \cup {i},
              ![s].blocked = r.blocked]
    /\ UNCHANGED <<inputVars, credVars, receivers, closed, pc, ret, events, written,
                   db, showVersionOutput, device, clientVars, now, call, calls>>

\* sendEvent: the loop is over, RUnlock, Send returns.
SendReturn(s) ==
    /\ pc = "stream"
    /\ senders[s].pc = "loop"
    /\ senders[s].i > Len(receivers)
    /\ senders' = [senders EXCEPT ![s] = IdleSender]
    /\ call' = SendCall(Cardinality(senders[s].got), Cardinality(senders[s].skipped))
    /\ UNCHANGED <<inputVars, credVars, receivers, closed, chans, pc, ret, events, written,
                   db, showVersionOutput, device, clientVars, now, calls>>

\* h.mu.Lock() waits until no sendEvent holds the read lock.
NoReader == \A s \in Senders : senders[s].pc # "loop"

AddReceiver(ch) ==
    /\ pc = "stream" /\ NoReader
    /\ IF closed
       THEN /\ call' = HandlerCall("AddReceiver", ch, ErrHandlerClosed)
            /\ UNCHANGED <<receivers, chans>>
       ELSE /\ Len(receivers) < MaxReceivers
            /\ receivers' = Append(receivers, ch)
            /\ chans' = [chans EXCEPT ![ch].regs = @ + 1, ![ch].removed = FALSE]
            /\ call' = HandlerCall("AddReceiver", ch, Nil)
    /\ UNCHANGED <<inputVars, credVars, closed, senders, pc, ret, events, written,
                   db, showVersionOutput, device, clientVars, now, calls>>

RemoveReceiver(ch) ==
    /\ pc = "stream" /\ NoReader
    /\ receivers' = RemoveFirst(receivers, ch)
    /\ chans' = [chans EXCEPT ![ch].regs = IF @ > 0 THEN @ - 1 ELSE 0,
                              ![ch].removed = @ \/ chans[ch].regs > 0]
    /\ call' = HandlerCall("RemoveReceiver", ch, Nil)
    /\ UNCHANGED <<inputVars, credVars, closed, senders, pc, ret, events, written,
                   db, showVersionOutput, device, clientVars, now, calls>>

HandlerClose ==
    /\ pc = "stream" /\ NoReader
    /\ closed' = TRUE
    /\ call' = HandlerCall("Close", "", Nil)
    /\ UNCHANGED <<inputVars, credVars, receivers, chans, senders, pc, ret, events, written,
                   db, showVersionOutput, device, clientVars, now, calls>>

\* The goroutine that owns ch takes the oldest event out of it.
Receive(ch) ==
    /\ pc = "stream"
    /\ chans[ch].queue # <<>>
    /\ chans' = [chans EXCEPT ![ch].queue = Tail(@)]
    /\ UNCHANGED <<inputVars, credVars, receivers, closed, senders, pc, ret, events, written,
                   db, showVersionOutput, device, clientVars, now, call, calls>>

\* NewHandler, the channels empty, nobody registered.
InitStream ==
    /\ InitIdleRun
    /\ CredIdle
    /\ pc = "stream"
    /\ call = HandlerCall("NewHandler", "", Nil)
    /\ receivers = <<>>
    /\ closed = FALSE
    /\ chans = [c \in Chans |-> [queue |-> <<>>, regs |-> 0, removed |-> FALSE]]
    /\ senders = [s \in Senders |-> IdleSender]

NextStream ==
    \/ \E s \in Senders : SendCreate(s) \/ SendLock(s) \/ SendDeliver(s) \/ SendReturn(s)
    \/ \E ch \in Chans : AddReceiver(ch) \/ RemoveReceiver(ch) \/ Receive(ch)
    \/ HandlerClose
SpecStream == InitStream /\ [][NextStream]_vars

\* ================================================================== claims
HasEvent(type) == \E i \in 1..Len(events) : events[i].type = type
EventsOf(type) == {i \in 1..Len(events) : events[i].type = type}
NoRemoteCommand == sessions = 0 /\ \A c \in Commands : started[c] = 0

\* C1: when loading the SSH credentials ends in the credential store's
\* not-found outcome (an error that is ErrNotFound), the run emits exactly one
\* DiscoveryCompleted with Success=false, returns nil, emits no
\* DiscoveryStarted and issues no remote command; any other load failure is
\* returned wrapped as "loading ssh creds".
C1_NotFoundIsExpectedEnd ==
    LET err == SSHCreds(platform, credStore).err IN
    /\ (pc = "done" /\ ErrorsIs(err, ErrNotFound)) =>
          /\ ret = Nil
          /\ events = <<Event("DiscoveryCompleted", FALSE, 0, <<"No SSH credentials found">>)>>
          /\ NoRemoteCommand
    /\ (pc = "done" /\ err # Nil /\ ~ErrorsIs(err, ErrNotFound)) =>
          ret = Wrap("loading ssh creds", err)

\* C2: once the credentials are loaded, the identification command is only
\* ever issued on a transport on which Connect has been performed.
C2_ConnectBeforeIdentification ==
    pc = "show_version" => conn = "open"

\* C3: a finished run whose credentials were loaded has DiscoveryCompleted as
\* its last event, with Success telling whether the run succeeded.
C3_CompletedIsLastEvent ==
    (pc = "done" /\ HasEvent("DiscoveryStarted")) =>
        /\ events[Len(events)].type = "DiscoveryCompleted"
        /\ events[Len(events)].success = (ret = Nil)

FailedAt(msg) == pc = "done" /\ ret # Nil /\ ret[1] = msg

ConfigFailed ==
    \E i \in EventsOf("ConfigurationRetrieved") : ~events[i].success /\ events[i].error # Nil

PersistenceErrors == {<<"failed to open database">>, <<"failed to save device to database">>}
FetchFailed(type) == \E i \in EventsOf(type) : ~events[i].success

SuccessCompleted ==
    \E i \in EventsOf("DiscoveryCompleted") : events[i].success

ExecStep == call'.n = call.n + 1
PathOf(cmd) == getCacheFilePath(Host, cmd)

\* C9: ExecuteCommand on a client on which no Connect has succeeded returns
\* the not-connected error and no output, opens no session, sends nothing and
\* leaves the cache files as they were.
C9_NotConnected ==
    [][(ExecStep /\ conn = "nil") =>
          /\ call'.err = ErrNotConnected
          /\ call'.out = EmptyText
          /\ ~call'.hit
          /\ sessions' = sessions
          /\ started' = started
          /\ cache' = cache]_vars

C9_Witness ==
    /\ call.n > 0 /\ conn = "nil" /\ call.err = ErrNotConnected
    /\ cacheCfg.Enabled /\ ~call.noCache /\ IsFresh(Host, call.cmd)

\* The first half of C10: a fresh entry is returned as it is, with no session.
FreshEntryServed ==
    (ExecStep /\ conn = "open" /\ cacheCfg.Enabled /\ ~call'.noCache
        /\ IsFresh(Host, call'.cmd)) =>
        /\ call'.err = Nil
        /\ call'.out = cache[PathOf(call'.cmd)].out
        /\ sessions' = sessions
        /\ started' = started
        /\ cache' = cache

\* A second identical call within the TTL of a successful first one.
SecondCall ==
    /\ ExecStep /\ conn = "open" /\ cacheCfg.Enabled
    /\ call.n > 0 /\ call.err = Nil /\ ~call.noCache
    /\ call'.cmd = call.cmd /\ ~call'.noCache
    /\ now - call.at <= cacheCfg.TTL

SameOutputNoRoundTrip ==
    call'.err = Nil /\ call'.out = call.out /\ sessions' = sessions /\ started' = started

\* C10 as claimed: a fresh entry is served from the cache without a session,
\* and a second identical call within the TTL of a successful first one
\* returns the same output without a network round trip.
C10_Original ==
    [][FreshEntryServed /\ (SecondCall => SameOutputNoRoundTrip)]_vars

\* C10 amended: the second call is served from the cache when the first one
\* executed on the device and its cache write succeeded.
C10_CacheHit ==
    [][/\ FreshEntryServed
       /\ (SecondCall /\ ~call.hit /\ cache[PathOf(call.cmd)] = File(call.out, call.at))
             => SameOutputNoRoundTrip]_vars

C10_Witness ==
    /\ conn = "open" /\ call.n = 2 /\ call.hit /\ ~call.noCache
    /\ cache[PathOf(call.cmd)].mtime > 0
    /\ call.at > cache[PathOf(call.cmd)].mtime
    /\ sessions = 1

\* A step in which ExecuteCommand went to the device.
WentToDevice == call'.n = call.n + 1 /\ conn = "open" /\ ~call'.hit

\* C11: an ExecuteCommand whose drain-and-wait does not finish before the
\* timeout returns the timeout error that names the duration of the timeout
\* in force for the call, returns no output, and leaves the cache files as
\* they were.
C11_TimeoutNoOutputNoCache ==
    [][(WentToDevice /\ call'.resp.kind = "timeout") =>
          /\ call'.err = <<"command execution timed out after "
                            \o DurationText(call'.opts.timeout)>>
          /\ call'.out = EmptyText
          /\ cache' = cache]_vars

C11_Witness ==
    /\ pc = "done" /\ call.n = 1 /\ call.resp.kind = "timeout"
    /\ call.opts.timeout = 5 /\ call.err = ErrTimeout(5)
    /\ cacheCfg.Enabled /\ ~call.opts.noCache
    /\ ~cache[PathOf(call.cmd)].present

\* C12: when session.Wait ends with an error, ExecuteCommand returns an error
\* exactly when no byte of standard output was captured; with standard
\* output captured the call succeeds and returns it.
C12_WaitErrorOnlyWithoutOutput ==
    [][(WentToDevice /\ call'.resp.kind = "exit" /\ call'.resp.waitErr) =>
          /\ (call'.err # Nil) <=> (call'.resp.stdout = EmptyText)
          /\ call'.resp.stdout # EmptyText =>
                SubSeq(call'.out, 1, Len(call'.resp.stdout)) = call'.resp.stdout]_vars

C12_Witness ==
    /\ pc = "done" /\ call.n = 1 /\ conn = "open" /\ ~call.hit
    /\ call.resp.kind = "exit" /\ call.resp.waitErr
    /\ call.resp.stdout # EmptyText /\ call.err = Nil /\ call.out # EmptyText

\* What the device answered is usable output.
DeviceAnswered(resp) ==
    resp.kind = "exit" /\ ~(resp.waitErr /\ resp.stdout = EmptyText)

\* C13: a successful ExecuteCommand that went to the device with caching in
\* force and whose cache write succeeded leaves exactly the returned output
\* under (host, command); when the cache write fails the call still returns
\* the device's output with no error; a call that returns an error changes
\* no cache file.
C13_CacheWrittenOnSuccessOnly ==
    [][WentToDevice =>
          LET caching == cacheCfg.Enabled /\ ~call'.opts.noCache
              p == PathOf(call'.cmd)
          IN
          /\ (call'.err = Nil /\ caching /\ call'.fsOK) =>
                /\ cache'[p] = File(call'.out, now)
                /\ \A q \in CachePaths \ {p} : cache'[q] = cache[q]
          /\ (DeviceAnswered(call'.resp) /\ caching /\ ~call'.fsOK) =>
                /\ call'.err = Nil
                /\ call'.out = Join(call'.resp.stdout, call'.resp.stderr)
                /\ cache' = cache
          /\ call'.err # Nil => cache' = cache]_vars

C13_Witness ==
    /\ pc = "done" /\ call.n = 1 /\ conn = "open" /\ ~call.hit
    /\ cacheCfg.Enabled /\ ~call.opts.noCache /\ ~call.fsOK
    /\ call.err = Nil /\ call.out # EmptyText
    /\ ~cache[PathOf(call.cmd)].present

\* A step that is one SaveOutput, one GetCachedOutput, of the cache's caller.
SaveStep == calls' = calls + 1 /\ call'.op = "save"
GetStep == calls' = calls + 1 /\ call'.op = "get"
KeyFile(c) == cache[getCacheFilePath(c.dev, c.cmd)]
SameKey(c1, c2) == c1.dev = c2.dev /\ c1.cmd = c2.cmd
Hit(k) == GetCachedOutput(k[1], k[2]).found

\* C14: with caching enabled, a GetCachedOutput that follows a successful
\* SaveOutput of the same key at once returns the saved output and found=true.
C14_SaveThenGet ==
    [][(GetStep /\ cacheCfg.Enabled /\ call.op = "save" /\ call.err = Nil
           /\ SameKey(call, call') /\ call.at = now) =>
          (call'.found /\ call'.out = call.out)]_vars

C14_Witness ==
    /\ call.op = "get" /\ call.found /\ calls = 2
    /\ KeyFile(call).mtime = now /\ call.dev # Host
    /\ call.out = <<LIf1, LName, LExit, LVlan10>>

C16_DisabledIsNoOp ==
    [][/\ (GetStep /\ ~cacheCfg.Enabled) => (~call'.found /\ call'.out = EmptyText)
       /\ (SaveStep /\ ~cacheCfg.Enabled) => (call'.err = Nil /\ cache' = cache)]_vars

C16_Witness ==
    /\ ~cacheCfg.Enabled /\ call.op = "get" /\ ~call.found
    /\ KeyFile(call).present /\ KeyFile(call).readable
    /\ now - KeyFile(call).mtime <= cacheCfg.TTL

\* C17: two keys that differ in the device or in the command have different
\* file paths, and a SaveOutput under one key changes what GetCachedOutput
\* returns under no other key.
C17_DistinctKeysDistinctFiles ==
    [][/\ \A k1, k2 \in Devices \X Commands :
             k1 # k2 => getCacheFilePath(k1[1], k1[2]) # getCacheFilePath(k2[1], k2[2])
       /\ SaveStep =>
             \A k \in CacheKeys : k # <<call'.dev, call'.cmd>> =>
                 GetCachedOutput(k[1], k[2])' = GetCachedOutput(k[1], k[2])]_vars

\* The closed enumeration, the families in their priority order, and the
\* markers of each.
DeviceTypes == {"generic_aruba", "generic_cisco_ios", "generic_cisco_nxos",
                "generic_juniper_junos", "generic_arista_eos", "unknown"}
FamilyOrder == <<"generic_aruba", "generic_cisco_ios", "generic_cisco_nxos",
                 "generic_juniper_junos", "generic_arista_eos">>
FamilyMarkers(i) ==
    CASE i = 1 -> {"procurve", "aruba", "hp j", "hp k"}
      [] i = 2 -> {"cisco ios", "cisco internetwork"}
      [] i = 3 -> {"cisco nx-os", "nexus"}
      [] i = 4 -> {"junos", "juniper"}
      [] i = 5 -> {"arista", "eos"}
FamiliesIn(text) ==
    {i \in 1..Len(FamilyOrder) : \E m \in FamilyMarkers(i) : Contains(text, m)}
Identified == pc = "done" /\ call.op = "NewDevice"

\* C18: DetectDeviceType maps every text to one value of the enumeration:
\* the first family, in the priority order, one of whose markers occurs in
\* the lower-cased text, and unknown exactly when no marker occurs.
C18_FirstFamilyWins ==
    Identified =>
        LET fs == FamiliesIn(showVersionOutput) IN
        /\ call.deviceType \in DeviceTypes
        /\ fs = {} <=> call.deviceType = "unknown"
        /\ fs # {} => call.deviceType = FamilyOrder[CHOOSE i \in fs : \A j \in fs : i <= j]

C18_Witness ==
    /\ Identified /\ call.deviceType = "generic_aruba"
    /\ Contains(showVersionOutput, "cisco ios")
    /\ Contains(showVersionOutput, "nexus")

\* C19: NewDevice returns the unsupported-device error and no adapter for a
\* text classified as unknown and for every family without an adapter; it
\* returns an adapter only for the HP/Aruba family, and only when that
\* adapter's construction succeeded.
C19_NoFallbackAdapter ==
    Identified =>
        /\ call.deviceType # "generic_aruba" =>
              (ret = <<"unsupported device type", call.deviceType>> /\ device = NoDevice)
        /\ device.present =>
              /\ call.deviceType = "generic_aruba"
              /\ ret = Nil
              /\ ArubaNewDevice(showVersionOutput).err = Nil
        /\ ret # Nil => device = NoDevice

C19_Witness ==
    /\ Identified /\ call.deviceType = "generic_cisco_ios"
    /\ ret # Nil /\ ret[1] = "unsupported device type" /\ device = NoDevice

\* C20: every adapter that construction returns has a non-empty platform.
C20_PlatformNeverEmpty ==
    (pc = "done" /\ call.op \in {"NewDevice", "genericaruba.NewDevice"} /\ device.present) =>
        device.Platform # ""

Constructed == pc = "done" /\ call.op = "genericaruba.NewDevice"
ParseError == <<"failed to parse Aruba device information from show version">>

\* C21: construction of the HP/Aruba adapter fails with the parse error and
\* returns no adapter exactly when the parsed platform and the parsed model are
\* both empty; otherwise it succeeds and the getters return the parsed values.
C21_FailsIffBothEmpty ==
    Constructed =>
        LET f == ParseShowVersion(showVersionOutput) IN
        IF f.platform = "" /\ f.model = ""
        THEN ret = ParseError /\ device = NoDevice
        ELSE /\ ret = Nil /\ device.present
             /\ GetPlatform(device) = f.platform
             /\ GetOSVersion(device) = f.osVersion
             /\ GetModel(device) = f.model
             /\ GetSerial(device) = f.serial
             /\ GetUptime(device) = f.uptime

\* Construction succeeded with only one of the two fields parsed.
C21_Witness ==
    /\ Constructed /\ ret = Nil /\ device.present
    /\ GetModel(device) = "" /\ GetPlatform(device) = "JL253A"
    /\ GetOSVersion(device) = "RA.16.04.0008"

\* What the claim has each token contribute: an integer itself, a range its
\* members in ascending order, anything else nothing.
Contribution(tok) ==
    CASE tok = Tok10 -> <<10>>
      [] tok = Tok7 -> <<7>>
      [] tok = TokSpaced -> <<5>>
      [] tok = Tok12to14 -> <<12, 13, 14>>
      [] OTHER -> <<>>
RECURSIVE Contributions(_)
Contributions(toks) ==
    IF toks = <<>> THEN <<>> ELSE Contribution(Head(toks)) \o Contributions(Tail(toks))
VlansParsed == pc = "done" /\ call.op = "parseVLANString"

\* C23: parseVLANString treats each comma-separated token on its own: an
\* integer contributes itself, a range a-b contributes a..b ascending, a
\* malformed token contributes nothing and the remaining tokens are still
\* processed; the output follows token order, so "10,12-14" gives 10,12,13,14.
C23_TokensIndependent ==
    VlansParsed =>
        /\ call.vlans = Contributions(call.tokens)
        /\ call.vlanStr = <<"1", "0", ",", "1", "2", "-", "1", "4">> =>
               call.vlans = <<10, 12, 13, 14>>

\* A malformed token followed by tokens that are still processed.
C23_Witness ==
    /\ VlansParsed
    /\ call.vlanStr = <<"1", "2", "-", ",", "1", "0", ",", "1", "2", "-", "1", "4">>
    /\ call.vlans = <<10, 12, 13, 14>>

\* The block-start lines of a configuration text, and the k-th of them.
BlockStarts(config) == {i \in 1..Len(config) : interfaceRe(config[i]) # ""}
RECURSIVE NthOf(_, _)
NthOf(S, k) ==
    LET m == CHOOSE x \in S : \A y \in S : x <= y IN
    IF k = 1 THEN m ELSE NthOf(S \ {m}, k - 1)
\* The last line of the block that starts on line i: its exit line, the line
\* before the next block start, or the last line of the text.
BlockEnd(config, i) ==
    LET stops == {j \in (i + 1)..Len(config) :
                     interfaceRe(config[j]) # "" \/ IsExitLine(config[j])}
        j == CHOOSE x \in stops : \A y \in stops : x <= y
    IN IF stops = {} THEN Len(config)
       ELSE IF IsExitLine(config[j]) THEN j ELSE j - 1
\* The description and the VLAN list that the lines of that block give.
BlockDescription(config, i) ==
    LET ds == {j \in (i + 1)..BlockEnd(config, i) : descRe(config[j]) # ""} IN
    IF ds = {} THEN "" ELSE descRe(config[CHOOSE x \in ds : \A y \in ds : x >= y])
RECURSIVE BlockVLANs(_, _, _)
BlockVLANs(config, j, end) ==
    IF j > end THEN <<>>
    ELSE (IF vlanRe(config[j]) # <<>> THEN parseVLANString(vlanRe(config[j])) ELSE <<>>)
         \o BlockVLANs(config, j + 1, end)
InterfacesParsed == pc = "done" /\ call.op = "parseInterfaces"

\* C22: for every configuration text parseInterfaces returns one record per
\* block-start line, in source order, each with the name of its block-start
\* line and the description and VLAN list of the lines of its own block,
\* whether the block ends at the next block start, at an exit line or at the
\* end of the text; lines outside a block contribute to no record.
C22_OneRecordPerBlock ==
    InterfacesParsed =>
        LET config == call.config
            starts == BlockStarts(config)
        IN
        /\ Len(call.interfaces) = Cardinality(starts)
        /\ \A k \in 1..Len(call.interfaces) :
             LET i == NthOf(starts, k)
                 r == call.interfaces[k]
             IN
             /\ r.Name = interfaceRe(config[i])
             /\ r.Description = BlockDescription(config, i)
             /\ r.VLANs = BlockVLANs(config, i + 1, BlockEnd(config, i))

HasColon(data) == \E i \in 1..Len(data) : data[i] = Colon
LoadStep == call'.op = "ReadUserCred" /\ calls' = calls + 1
\* A load that directly follows a store that returned nil.
StoreLoadStep == call.op = "WriteUserCred" /\ call.err = Nil /\ LoadStep
\* The blob a load finds under the name, when there is one.
BlobFound == ~credCache'.nil /\ credCache'.m[SSHCredSecretName].present
RejectsBlobWithoutColon ==
    (LoadStep /\ BlobFound) =>
        LET data == credCache'.m[SSHCredSecretName].data IN
        IF HasColon(data) THEN call'.err = Nil
        ELSE call'.err # Nil /\ ErrorsIs(call'.err, ErrInvalidFormat)

\* C24 as stated: storing a credential and loading it back gives the same
\* username and password for every username and every password, and a blob
\* with no colon is rejected with an error wrapping ErrInvalidFormat.
C24_Original ==
    [][/\ StoreLoadStep =>
            /\ call'.err = Nil
            /\ call'.username = call.username
            /\ call'.password = call.password
       /\ RejectsBlobWithoutColon]_vars

\* C24 amended: the round trip gives the same username and password for every
\* username that contains no colon and for every password, colons included;
\* the stored blob is split at its first colon, so a username with a colon
\* comes back cut at that colon with the rest in front of the password; a
\* blob with no colon is rejected with an error wrapping ErrInvalidFormat.
C24_RoundTripFirstColon ==
    [][/\ StoreLoadStep =>
            /\ call'.err = Nil
            /\ ~HasColon(call'.username)
            /\ call'.username \o <<Colon>> \o call'.password
                  = call.username \o <<Colon>> \o call.password
            /\ ~HasColon(call.username) =>
                  (call'.username = call.username /\ call'.password = call.password)
       /\ RejectsBlobWithoutColon]_vars

\* A credential whose password holds colons was stored and loaded back.
C24_Witness ==
    /\ call.op = "ReadUserCred" /\ call.err = Nil
    /\ call.username = <<LetterA>> /\ call.password = <<Colon, Colon>>
    /\ lastWrite[SSHCredSecretName] = Entry(<<LetterA, Colon, Colon, Colon>>)

MgrStep(op) == call'.op = op /\ calls' = calls + 1
\* What Read finds under each name.
Lookup == [n \in CredNames |-> IF credCache.nil THEN NoEntry ELSE credCache.m[n]]

\* C25: Read(name) returns the bytes of the most recent Write(name) that no
\* Delete(name) followed and otherwise fails with an error wrapping
\* ErrNotFound; Delete of a name that is not stored fails with an error
\* wrapping ErrNotFound and changes no stored credential; List returns the
\* names that are stored.  A Write or a Delete counts when it returned nil.
C25_ReadReturnsLastWrite ==
    [][/\ MgrStep("Read") =>
            IF lastWrite[call'.name].present
            THEN call'.err = Nil /\ call'.data = lastWrite[call'.name].data
            ELSE call'.err # Nil /\ ErrorsIs(call'.err, ErrNotFound)
       /\ (MgrStep("Delete") /\ ~lastWrite[call'.name].present) =>
            /\ call'.err # Nil /\ ErrorsIs(call'.err, ErrNotFound)
            /\ credInit => Lookup' = Lookup
       /\ MgrStep("List") =>
            (call'.err = Nil /\ call'.names = {n \in CredNames : lastWrite[n].present})]_vars

\* A turn of the loop of sendEvent by s, and the return of Send.
DeliverStep(s) ==
    senders[s].pc = "loop" /\ senders[s].i <= Len(receivers) /\ senders'[s] # senders[s]
ReturnStep(s) == senders[s].pc = "loop" /\ senders'[s].pc = "idle"
HasRoom(ch) == Len(chans[ch].queue) < MaxQueue
Grows(ch) == Len(chans'[ch].queue) > Len(chans[ch].queue)

\* C26: Send never blocks on a receiver and never fails its caller: at a full
\* channel the event is dropped for that receiver only, every other registered
\* receiver with free capacity gets the event, and Send returns.
C26_SendNeverBlocks ==
    [][\A s \in Senders :
         /\ ~senders'[s].blocked
         /\ DeliverStep(s) =>
              LET i == senders[s].i
                  ch == receivers[i]
              IN
              /\ senders'[s].i = i + 1
              /\ IF HasRoom(ch)
                 THEN /\ chans'[ch].queue = Append(chans[ch].queue, senders[s].ev)
                      /\ i \in senders'[s].got
                 ELSE /\ chans'[ch].queue = chans[ch].queue
                      /\ i \in senders'[s].skipped
              /\ \A c \in Chans \ {ch} : chans'[c] = chans[c]
         /\ ReturnStep(s) =>
              /\ senders[s].got \cup senders[s].skipped = 1..Len(receivers)
              /\ call'.op = "Send" /\ call'.err = Nil]_vars

\* A Send returned after one receiver got the event and a full one was skipped.
C26_Witness == call.op = "Send" /\ call.sent >= 1 /\ call.dropped >= 1

Registrations(ch) == Cardinality({i \in 1..Len(receivers) : receivers[i] = ch})
\* What the claim says of Close and of AddReceiver after it.
ClosedIsFinal ==
    /\ closed => \A ch \in Chans : ~Grows(ch)
    /\ closed => closed'
    /\ (closed /\ call' # call /\ call'.op = "AddReceiver") => call'.err # Nil
    /\ closed => receivers' = receivers \/ Len(receivers') < Len(receivers)

\* C27 as stated: a Send on an open handler delivers to every receiver
\* registered at that moment; a receiver removed with RemoveReceiver receives
\* no event sent after the removal; after Close no Send delivers and
\* AddReceiver returns an error.
C27_Original ==
    [][/\ \A s \in Senders :
            /\ ReturnStep(s) => senders[s].got = 1..Len(receivers)
            /\ DeliverStep(s) =>
                 (Grows(receivers[senders[s].i]) => ~chans[receivers[senders[s].i]].removed)
       /\ ClosedIsFinal]_vars

\* C27: a Send on an open handler delivers the event to every registration
\* whose channel has room when its turn comes, and to no channel without a
\* registration left (RemoveReceiver takes one registration away); after
\* Close no Send delivers and AddReceiver returns an error.
C27_DeliversToRegistered ==
    [][/\ \A s \in Senders :
            /\ ReturnStep(s) =>
                 senders[s].got \cup senders[s].skipped = 1..Len(receivers)
            /\ DeliverStep(s) =>
                 LET ch == receivers[senders[s].i] IN
                 /\ chans[ch].regs > 0
                 /\ Grows(ch) <=> HasRoom(ch)
                 /\ \A c \in Chans \ {ch} : ~Grows(c)
       /\ \A ch \in Chans : Registrations(ch)' = chans'[ch].regs
       /\ ClosedIsFinal]_vars

\* After Close a Send returned without a delivery although a receiver is
\* registered, and a channel whose registration was removed stays empty
\* while the other one holds an event.
C27_Witness ==
    /\ closed /\ call.op = "Send" /\ call.sent = 0 /\ receivers # <<>>
    /\ \E ch \in Chans :
         /\ chans[ch].removed /\ chans[ch].regs = 0 /\ chans[ch].queue = <<>>
         /\ \E c \in Chans \ {ch} : chans[c].queue # <<>>

\* The events of a run, in the order DiscoverDevice has them.
EventOrder ==
    <<"DiscoveryStarted", "ShowVersionRetrieved", "DeviceDetected", "ConfigurationRetrieved",
      "InterfacesRetrieved", "NeighborsRetrieved", "DeviceSaved", "DiscoveryCompleted">>
EventTypes == [i \in 1..Len(events) |-> events[i].type]
Emitted(type) == \E i \in 1..Len(events) : events[i].type = type
CredsLoaded == pc # "load_creds" /\ SSHCreds(platform, credStore).err = Nil
\* The number of events due when the run is at a step.
EventsDue ==
    CASE pc \in {"connect", "show_version", "save_show_version"} -> 1
      [] pc = "new_device" -> 2
      [] pc = "get_config" -> 3
      [] pc = "get_interfaces" -> 4
      [] pc = "get_neighbors" -> 5
      [] pc = "save_device" -> 6
      [] OTHER -> Len(events)

SubFetches == {"GetConfig", "GetInterfaces", "GetNeighbors"}
SubFetchStep == calls' = calls + 1 /\ call'.op \in SubFetches

\* C29: LastUpdated is set to the time of each successful sub-fetch
\* (configuration, interfaces, neighbors) and changed by nothing else; a
\* sub-fetch that fails leaves LastUpdated, Interfaces and Neighbors as they
\* were.
C29_LastUpdatedBumped ==
    [][IF SubFetchStep
       THEN IF call'.err = Nil
            THEN device'.LastUpdated = now
            ELSE /\ device'.LastUpdated = device.LastUpdated
                 /\ device'.Interfaces = device.Interfaces
                 /\ device'.Neighbors = device.Neighbors
       ELSE device'.LastUpdated = device.LastUpdated]_vars

\* The first line of the text that a pattern matches, 0 for none, and what the
\* pattern captures there.
FirstMatchLine(Re(_), text) ==
    IF \A i \in 1..Len(text) : Re(text[i]) = "" THEN 0
    ELSE CHOOSE i \in 1..Len(text) : Re(text[i]) # "" /\ \A j \in 1..(i - 1) : Re(text[j]) = ""
FirstMatch(Re(_), text) ==
    IF FirstMatchLine(Re, text) = 0 THEN "" ELSE Re(text[FirstMatchLine(Re, text)])
VersionParsed == pc = "done" /\ call.op = "ParseShowVersion"
OwnPatternFields ==
    /\ call.fields.osVersion = FirstMatch(versionRe, showVersionOutput)
    /\ call.fields.model = FirstMatch(modelRe, showVersionOutput)
    /\ call.fields.serial = FirstMatch(serialRe, showVersionOutput)
    /\ call.fields.uptime = FirstMatch(uptimeRe, showVersionOutput)

\* C30 as stated: each of platform, OS version, model, serial and uptime is
\* what its own pattern captures on the first line it matches, whatever the
\* other four searches find, and "" when it matches no line.
C30_Original ==
    VersionParsed =>
        /\ OwnPatternFields
        /\ call.fields.platform = FirstMatch(platformRe, showVersionOutput)

\* The line of the model match when the model has a first word to give to the
\* platform, 0 otherwise.
ModelWordLine ==
    IF FirstField(FirstMatch(modelRe, showVersionOutput)) = "" THEN 0
    ELSE FirstMatchLine(modelRe, showVersionOutput)

\* C30: OS version, model, serial and uptime are each what their own pattern
\* captures on the first line it matches and "" without a match; platform is
\* the first word of the model when the model holds a space and no line before
\* the model's line matches the platform pattern, and otherwise what the
\* platform pattern captures on the first line it matches.
C30_FirstMatchWins ==
    VersionParsed =>
        /\ OwnPatternFields
        /\ call.fields.platform =
             IF /\ ModelWordLine # 0
                /\ \A j \in 1..(ModelWordLine - 1) : platformRe(showVersionOutput[j]) = ""
             THEN FirstField(FirstMatch(modelRe, showVersionOutput))
             ELSE FirstMatch(platformRe, showVersionOutput)

\* Two lines carry a software revision and the first one is returned; no line
\* carries a serial number.
C30_Witness ==
    /\ VersionParsed /\ Len(showVersionOutput) >= 2
    /\ versionRe(showVersionOutput[1]) # "" /\ versionRe(showVersionOutput[2]) # ""
    /\ versionRe(showVersionOutput[1]) # versionRe(showVersionOutput[2])
    /\ call.fields.osVersion = versionRe(showVersionOutput[1])
    /\ call.fields.serial = ""

\* The record-start lines of an LLDP text: a table-entry line or a local-port
\* marker line that is not skipped.
IsRecordStart(line) ==
    ~IsSkipped(line) /\ (tableEntryRe(line) # <<>> \/ localPortRe(line) # "")
RecordStarts(output) == {i \in 1..Len(output) : IsRecordStart(output[i])}
\* The last line before the next record start, or the last line of the text.
RecordEnd(output, i) ==
    LET later == {j \in RecordStarts(output) : j > i} IN
    IF later = {} THEN Len(output) ELSE (CHOOSE x \in later : \A y \in later : x <= y) - 1
\* What the last line of the record that a probe matches gives, or the value
\* the record started with.
LastMatch(Re(_), output, i, initial) ==
    LET ms == {j \in (i + 1)..RecordEnd(output, i) :
                  ~IsSkipped(output[j]) /\ Re(output[j]) # ""} IN
    IF ms = {} THEN initial ELSE Re(output[CHOOSE x \in ms : \A y \in ms : x >= y])
StartsWith(line) ==
    IF tableEntryRe(line) # <<>>
    THEN [NewNeighbor(tableEntryRe(line)[1]) EXCEPT
            !.RemoteHostname = FirstWord(tableEntryRe(line)[3])]
    ELSE NewNeighbor(localPortRe(line))
NeighborsParsed == pc = "done" /\ call.op = "parseNeighbors"

\* C31: parseNeighbors returns one Neighbor per record-start line (local-port
\* marker or table entry), in source order; each carries what the field lines
\* between its start and the next start give, field lines before the first
\* start are dropped, blank and separator lines change nothing, and the record
\* open at the end of the text is returned once.
C31_OneNeighborPerRecord ==
    NeighborsParsed =>
        LET output == call.output
            starts == RecordStarts(output)
        IN
        /\ Len(call.neighbors) = Cardinality(starts)
        /\ \A k \in 1..Len(call.neighbors) :
             LET i == NthOf(starts, k)
                 r == call.neighbors[k]
                 r0 == StartsWith(output[i])
             IN
             /\ r.LocalInterface = r0.LocalInterface
             /\ r.RemoteInterface = LastMatch(remoteIntfRe, output, i, "")
             /\ r.RemoteHostname = LastMatch(hostnameRe, output, i, r0.RemoteHostname)
             /\ r.Capabilities = LastMatch(capabilitiesRe, output, i, "")
             /\ r.IPAddress = LastMatch(lldpIpRe, output, i, "")
             /\ r.Platform = LastMatch(lldpPlatformRe, output, i, "")

\* A call of ExecuteCommand made with OptNoCache.
NoCacheStep == pc = "exec" /\ pc' = "done" /\ call'.opts.noCache

\* C32: an ExecuteCommand call with the no-cache option neither reads nor
\* writes the cache: on a connected client it goes to the device even when a
\* fresh entry exists, what it returns is never a cache hit, and the cache
\* files are the same after the call as before it, whatever the outcome.
C32_NoCacheLeavesCacheAlone ==
    [][NoCacheStep =>
         /\ cache' = cache
         /\ ~call'.hit
         /\ conn = "open" =>
              /\ call'.resp.kind # "session_fail" => sessions' = sessions + 1
              /\ call'.resp.kind \in {"timeout", "read_fail", "exit"} =>
                   started'[call'.cmd] = started[call'.cmd] + 1]_vars

\* A no-cache call got its output from the device while a fresh entry for the
\* same command sits in the cache.
C32_Witness ==
    /\ pc = "done" /\ call.opts.noCache /\ call.err = Nil /\ call.opened
    /\ IsFresh(Host, call.cmd)
    /\ cache[getCacheFilePath(Host, call.cmd)].out # call.out

\* The timeouts that the OptTimeout options of a call carry, in order.
Overrides(passed) == SelectSeq(passed, LAMBDA o : o.opt = "OptTimeout")
\* The deadline the claim gives a call: the last override, or the timeout the
\* client was configured with.
ClaimedDeadline(passed) ==
    IF Overrides(passed) = <<>> THEN cfgTimeout
    ELSE Overrides(passed)[Len(Overrides(passed))].timeout

\* C33: the timeout the client was configured with is the deadline of every
\* ExecuteCommand call that passes no override-timeout option; an override
\* replaces it for that call only; a call that times out reports that
\* deadline.
C33_ConfiguredTimeoutIsDeadline ==
    [][(pc = "exec_opts" /\ calls' = calls + 1) =>
         /\ call'.opts.timeout = ClaimedDeadline(call'.passed)
         /\ (call'.opened /\ call'.resp.kind = "timeout") =>
              call'.err = ErrTimeout(ClaimedDeadline(call'.passed))]_vars

\* C35: an ExecuteCommand call made after Close fails with the not-connected
\* error, as it does on a client that was never connected: it opens no
\* session and returns no output, cached or not.
C35_ClosedIsNotConnected ==
    [][(pc = "lib" /\ call'.n = call.n + 1 /\ conn \in {"nil", "closed"}) =>
         /\ call'.err = ErrNotConnected
         /\ call'.out = EmptyText
         /\ ~call'.hit /\ ~call'.opened
         /\ sessions' = sessions]_vars

\* The first use of the manager failed to load the credentials file.
LoadFailed == credInit /\ credCache.nil

\* C37: once the first use has failed to load the credentials file, every
\* later Read, Write, Delete and List reports the load failure: none reports
\* not-found, succeeds or crashes, and the file on disk stays as it was.
C37_LoadFailureIsSticky ==
    [][(LoadFailed /\ calls' = calls + 1) =>
         /\ call'.err = ErrLoad
         /\ ~ErrorsIs(call'.err, ErrNotFound)
         /\ call'.err # PanicNilMap
         /\ credFile' = credFile]_vars

\* Every goroutine is between calls, at least one call was made, and every
\* call made returned nil.
AllReturnedOK ==
    /\ \A g \in Goroutines : call[g].pc = "idle" /\ call[g].ok
    /\ \E g \in Goroutines : call[g].n > 0

\* C36: when the concurrent Write and Delete calls on the manager have all
\* returned successfully, the credentials file holds exactly the credentials
\* of the in-memory cache.
C36_FileMatchesCache ==
    (pc = "cred_conc" /\ AllReturnedOK) => credFile = CredFile(credCache.m)

\* The device has more to write and cannot, the goroutine waits for stdout
\* with nothing to read, while unread stderr fills the session's window:
\* nothing but the timeout can happen.
Stalled ==
    /\ Reading /\ call.drain = "read_stdout"
    /\ call.script # <<>> /\ call.window = 0 /\ call.stdoutBuf = 0 /\ ~call.eof
    /\ call.stderrBuf > 0

\* C34: stderr is drained while stdout has not reached EOF, so a command that
\* keeps writing to stderr before it closes stdout never stalls the drain.
C34_StderrNeverStallsDrain == pc = "drain" => ~Stalled

\* C38: the goroutine's send on the result channel can always complete, with
\* or without a receiver, it sends once, and the session is closed when
\* executeCommandInternal has returned, by result or by timeout.
C38_SendNeverBlocksDrain ==
    pc = "drain" =>
        /\ call.drain = "send" => ResultChanSend(call.resultChan, Reading)
        /\ Len(call.resultChan) <= 1
        /\ (call.drain = "done" /\ call.main # "returned") => Len(call.resultChan) = 1
        /\ ~Reading => call.sessionClosed

\* The timeout fired while the device was still writing, and the goroutine
\* delivered its result afterwards to the channel nobody reads.
C38_Witness ==
    /\ pc = "drain" /\ call.main = "timeout" /\ call.sessionClosed
    /\ call.drain = "done" /\ call.resultChan = <<call.result>>
    /\ call.result.err = Nil /\ call.script # <<>>

====
